---- MODULE Spec2Model ----
(***************************************************************************)
(* Model of the vehicle tracking service: the ingestion consumer           *)
(* (App.Consume), the tracking domain service (TrackVehicle,               *)
(* FindTrackingData), the filter builder (TrackingFilter.Build) and the    *)
(* Mongo-backed event store (CreateTrackingData, FindTrackingData).        *)
(*                                                                         *)
(* Strings of the program are sequences of one-character strings, so that  *)
(* parsing (strconv.Atoi, strconv.ParseFloat, primitive.ObjectIDFromHex,   *)
(* the $regex prefix match) is computed character by character.            *)
(* A float64 is a decimal  m / 10^e  kept as the record [m, e].            *)
(***************************************************************************)
EXTENDS Integers, Sequences, FiniteSets, TLC

VARIABLES
    subscription,   \* trackingDataMessages: deliveries the broker has queued for the consumer
    body,           \* body[d]: msg.Body of delivery d, as its index in Bodies
    pc,             \* pc[d]: position of the handler goroutine of delivery d
    trackingData,   \* trackingData[d]: the handler's decoded TrackingDataRequest
    trackErr,       \* trackErr[d]: what TrackVehicle returned to the handler
    pubpc,          \* pubpc[d]: position of the publish goroutine the handler spawned
    pubErr,         \* pubErr[d]: what PublishWithContext returned
    acks,           \* acks[d]: the Ack/Nack calls the handler made on delivery d
    taken,          \* taken[d]: how often the dispatch loop received delivery d
    outbound,       \* messages accepted by the broker for cfg.VehicleQueue
    store,          \* the "tracking" collection, in insertion order
    origin,         \* origin[i]: the delivery whose handler inserted store[i] (0: a direct call)
    now,            \* the latest clock reading stamped on a record (time.Now())
    lastTrack,      \* the last direct TrackVehicle call: its request and result
    q,              \* the last FindTrackingData call: parameters, filter, outcome
    sweep,          \* the paging loop over the repository's FindTrackingData: its filter and pages
    resp,           \* the response of the query endpoint to the last HTTP request
    app,            \* the process: the shutdown channel, the Shutdown call and the two connections
    trackCall       \* trackCall[c]: the TrackVehicle call of caller c that is between Build and InsertOne

vars == <<subscription, body, pc, trackingData, trackErr, pubpc, pubErr, acks,
          taken, outbound, store, origin, now, lastTrack, q, sweep, resp, app, trackCall>>

ingestVars == <<subscription, body, pc, trackingData, trackErr, pubpc, pubErr,
                acks, taken, outbound>>

(***************************************************************************)
(* Bounds of the model.                                                    *)
(***************************************************************************)
NumDeliveries == 2
MaxStore == 2
MaxLoop == 5

Deliveries == 1..NumDeliveries

(***************************************************************************)
(* Characters and strings.                                                 *)
(***************************************************************************)
Digits == <<"0", "1", "2", "3", "4", "5", "6", "7", "8", "9">>
Upper == <<"A", "B", "C", "D", "E", "F", "G", "H", "I", "J", "K", "L", "M",
           "N", "O", "P", "Q", "R", "S", "T", "U", "V", "W", "X", "Y", "Z">>
Lower == <<"a", "b", "c", "d", "e", "f", "g", "h", "i", "j", "k", "l", "m",
           "n", "o", "p", "q", "r", "s", "t", "u", "v", "w", "x", "y", "z">>

\* The characters used, in increasing byte order (binary string comparison).
AsciiOrder == <<" ", "+", "-", ".">> \o Digits \o Upper \o <<"_">> \o Lower

\* position of a character in a sequence of distinct characters (0: not in it)
IndexIn(seq) ==
    [c \in {AsciiOrder[i] : i \in 1..Len(AsciiOrder)} |->
        IF \E i \in 1..Len(seq) : seq[i] = c
        THEN CHOOSE i \in 1..Len(seq) : seq[i] = c
        ELSE 0]

CharCodes == IndexIn(AsciiOrder)

DigitIndex == IndexIn(Digits)

UpperIndex == IndexIn(Upper)

CharCode(c) == CharCodes[c]

IsDigit(c) == DigitIndex[c] > 0

DigitVal(c) == DigitIndex[c] - 1

IsUpper(c) == UpperIndex[c] > 0

ToLower(c) == IF IsUpper(c) THEN Lower[UpperIndex[c]] ELSE c

RECURSIVE DigitsValue(_)
DigitsValue(s) ==
    IF s = <<>> THEN 0
    ELSE 10 * DigitsValue(SubSeq(s, 1, Len(s) - 1)) + DigitVal(s[Len(s)])

AllDigits(s) == \A i \in 1..Len(s) : IsDigit(s[i])

RECURSIVE Pow10(_)
Pow10(n) == IF n = 0 THEN 1 ELSE 10 * Pow10(n - 1)

RECURSIVE Pow2(_)
Pow2(n) == IF n = 0 THEN 1 ELSE 2 * Pow2(n - 1)

RECURSIVE Pow5(_)
Pow5(n) == IF n = 0 THEN 1 ELSE 5 * Pow5(n - 1)

\* number of decimal digits of n >= 0
RECURSIVE NumDigits(_)
NumDigits(n) == IF n < 10 THEN 1 ELSE 1 + NumDigits(n \div 10)

\* float64 values. A value of the normal range is the decimal m / 10^e
\* (e < 0: m * 10^-e): a decimal of up to fifteen digits in that range stands
\* for the float64 nearest to it, and two such decimals are in the order of
\* their float64 values. A value below 2^-1022 is a multiple of 2^-1074, the
\* smallest float64 above zero: Subnormal(k) is k * 2^-1074. FloatValue
\* rounds a decimal below 2^-1022 to its multiple of 2^-1074 (to zero up to
\* 2^-1075), the comparisons are on the rounded values, and ParseFloat
\* recognizes a decimal that rounds to infinity.
Float(m, e) == [m |-> m, e |-> e, sub |-> FALSE]

Subnormal(k) == [m |-> k, e |-> 0, sub |-> TRUE]

FloatZero == Float(0, 0)

FloatSign(a) == IF a.m > 0 THEN 1 ELSE IF a.m < 0 THEN -1 ELSE 0

FloatAbs(a) == [a EXCEPT !.m = IF a.m < 0 THEN -a.m ELSE a.m]

\* the position of the leading digit: 10^(k-1) <= |a| < 10^k for a # 0
FloatOrder(a) == NumDigits(FloatAbs(a).m) - a.e

(***************************************************************************)
(* strconv.Atoi and strconv.ParseFloat. The inputs are short enough that   *)
(* no integer leaves the int range and no mantissa has more than nine      *)
(* digits.                                                                 *)
(***************************************************************************)
HasSign(s) == s # <<>> /\ s[1] \in {"+", "-"}

Unsigned(s) == IF HasSign(s) THEN Tail(s) ELSE s

Negative(s) == HasSign(s) /\ s[1] = "-"

Atoi(s) ==
    LET digits == Unsigned(s)
        mag == DigitsValue(digits)
    IN  IF digits = <<>> \/ ~AllDigits(digits)
        THEN [ok |-> FALSE, v |-> 0]
        ELSE [ok |-> TRUE, v |-> IF Negative(s) THEN -mag ELSE mag]

LowerStr(s) == [i \in 1..Len(s) |-> ToLower(s[i])]

HexLower == <<"0", "1", "2", "3", "4", "5", "6", "7", "8", "9", "a", "b", "c", "d", "e", "f">>

HexIndex == IndexIn(HexLower)

IsHex(c) == HexIndex[ToLower(c)] > 0

HexVal(c) == HexIndex[ToLower(c)] - 1

RECURSIVE HexDigitsValue(_)
HexDigitsValue(s) ==
    IF s = <<>> THEN 0
    ELSE 16 * HexDigitsValue(SubSeq(s, 1, Len(s) - 1)) + HexVal(s[Len(s)])

\* special: "inf" and "infinity" with an optional sign, "nan" without one,
\* letters of either case
Special(s) ==
    IF LowerStr(Unsigned(s)) \in {<<"i", "n", "f">>, <<"i", "n", "f", "i", "n", "i", "t", "y">>}
    THEN IF Negative(s) THEN "-inf" ELSE "+inf"
    ELSE IF LowerStr(s) = <<"n", "a", "n">> THEN "nan"
    ELSE "none"

\* underscoreOK: an underscore stands between two digits, or between a base
\* prefix and a digit
UnderscoreOK(s) ==
    LET t == Unsigned(s)
        prefix == Len(t) >= 2 /\ t[1] = "0" /\ ToLower(t[2]) \in {"b", "o", "x"}
        hex == prefix /\ ToLower(t[2]) = "x"
        first == IF prefix THEN 3 ELSE 1
        digit(i) == IsDigit(t[i]) \/ (hex /\ IsHex(t[i]))
    IN  \A i \in first..Len(t) :
            t[i] = "_" =>
                /\ IF i = first THEN prefix ELSE digit(i - 1)
                /\ i < Len(t) /\ digit(i + 1)

\* readFloat: [ok, hex, int, frac, exp]: the digits before and after the
\* point and the exponent; the whole of s has to be read
ReadFloat(s) ==
    LET \* the mantissa without its underscores and the text after the exponent
        \* character
        parts(h, digits, exponent, hasExp) ==
            LET digit(c) == IsDigit(c) \/ (h /\ IsHex(c))
                dots == {i \in 1..Len(digits) : digits[i] = "."}
                dot == IF dots = {} THEN Len(digits) + 1 ELSE CHOOSE i \in dots : TRUE
                expDigits == SelectSeq(Unsigned(exponent), LAMBDA c : c # "_")
                expOK == IF ~hasExp THEN ~h
                         ELSE /\ Unsigned(exponent) # <<>>
                              /\ IsDigit(Unsigned(exponent)[1])
                              /\ AllDigits(expDigits)
                mantissaOK == /\ Cardinality(dots) <= 1
                              /\ \A i \in 1..Len(digits) : i # dot => digit(digits[i])
                              /\ \E i \in 1..Len(digits) : i # dot
                underscores == \E i \in 1..Len(s) : s[i] = "_"
            IN  [ok |-> mantissaOK /\ expOK /\ (underscores => UnderscoreOK(s)),
                 hex |-> h,
                 int |-> SubSeq(digits, 1, dot - 1),
                 frac |-> SubSeq(digits, dot + 1, Len(digits)),
                 exp |-> IF ~hasExp \/ ~expOK THEN 0
                         ELSE IF Negative(exponent) THEN -DigitsValue(expDigits)
                         ELSE DigitsValue(expDigits)]
        \* the text after the sign and the base prefix
        split(h, text) ==
            LET marks == {i \in 1..Len(text) : ToLower(text[i]) = IF h THEN "p" ELSE "e"}
                mark == IF marks = {} THEN Len(text) + 1
                        ELSE CHOOSE i \in marks : \A j \in marks : i <= j
            IN  parts(h, SelectSeq(SubSeq(text, 1, mark - 1), LAMBDA c : c # "_"),
                      SubSeq(text, mark + 1, Len(text)), marks # {})
        u == Unsigned(s)
        hex == Len(u) >= 3 /\ u[1] = "0" /\ ToLower(u[2]) = "x"
    IN  split(hex, IF hex THEN SubSeq(u, 3, Len(u)) ELSE u)

\* the value read, before the range check
FloatOf(neg, r) ==
    LET mag == IF r.hex THEN HexDigitsValue(r.int \o r.frac)
               ELSE DigitsValue(r.int \o r.frac)
        k == r.exp - 4 * Len(r.frac)
        abs == IF ~r.hex THEN Float(mag, Len(r.frac) - r.exp)
               ELSE IF k >= 0 THEN Float(mag * Pow2(k), 0)
               ELSE Float(mag * Pow5(-k), -k)
    IN  IF mag = 0 THEN FloatZero ELSE Float(IF neg THEN -abs.m ELSE abs.m, abs.e)

\* the decimal digits of n >= 0, the leading digit first
RECURSIVE DecDigits(_)
DecDigits(n) == IF n < 10 THEN <<n>> ELSE Append(DecDigits(n \div 10), n % 10)

\* the digit strings a and b read as the fractions 0.a1a2... and 0.b1b2...:
\* -1, 0 or 1 as the first is below, equal to or above the second
CompareDigits(a, b) ==
    LET at(d, i) == IF i <= Len(d) THEN d[i] ELSE 0
        longest == IF Len(a) > Len(b) THEN Len(a) ELSE Len(b)
        differ == {i \in 1..longest : at(a, i) # at(b, i)}
        pick(i) == IF at(a, i) > at(b, i) THEN 1 ELSE -1
    IN  IF differ = {} THEN 0
        ELSE pick(CHOOSE i \in differ : \A j \in differ : i <= j)

\* the digits of 2^1024 - 2^970 = 1.797693134862315807...e308, halfway between
\* the largest float64 and 2^1024: a value from here on rounds to infinity
OverflowBound ==
    <<1, 7, 9, 7, 6, 9, 3, 1, 3, 4, 8, 6, 2, 3, 1, 5, 8, 0, 7, 9, 3, 7, 2, 8, 9, 7, 1, 4, 0, 5, 3, 0,
    3, 4, 1, 5, 0, 7, 9, 9, 3, 4, 1, 3, 2, 7, 1, 0, 0, 3, 7, 8, 2, 6, 9, 3, 6, 1, 7, 3, 7, 7, 8, 9,
    8, 0, 4, 4, 4, 9, 6, 8, 2, 9, 2, 7, 6, 4, 7, 5, 0, 9, 4, 6, 6, 4, 9, 0, 1, 7, 9, 7, 7, 5, 8, 7,
    2, 0, 7, 0, 9, 6, 3, 3, 0, 2, 8, 6, 4, 1, 6, 6, 9, 2, 8, 8, 7, 9, 1, 0, 9, 4, 6, 5, 5, 5, 5, 4,
    7, 8, 5, 1, 9, 4, 0, 4, 0, 2, 6, 3, 0, 6, 5, 7, 4, 8, 8, 6, 7, 1, 5, 0, 5, 8, 2, 0, 6, 8, 1, 9,
    0, 8, 9, 0, 2, 0, 0, 0, 7, 0, 8, 3, 8, 3, 6, 7, 6, 2, 7, 3, 8, 5, 4, 8, 4, 5, 8, 1, 7, 7, 1, 1,
    5, 3, 1, 7, 6, 4, 4, 7, 5, 7, 3, 0, 2, 7, 0, 0, 6, 9, 8, 5, 5, 5, 7, 1, 3, 6, 6, 9, 5, 9, 6, 2,
    2, 8, 4, 2, 9, 1, 4, 8, 1, 9, 8, 6, 0, 8, 3, 4, 9, 3, 6, 4, 7, 5, 2, 9, 2, 7, 1, 9, 0, 7, 4, 1,
    6, 8, 4, 4, 4, 3, 6, 5, 5, 1, 0, 7, 0, 4, 3, 4, 2, 7, 1, 1, 5, 5, 9, 6, 9, 9, 5, 0, 8, 0, 9, 3,
    0, 4, 2, 8, 8, 0, 1, 7, 7, 9, 0, 4, 1, 7, 4, 4, 9, 7, 7, 9, 2>>

\* the digits of 5^1075; 2^-1075 = 5^1075 / 10^1075 = 2.4703282292062327...e-324
\* is half the smallest float64 above zero: a value up to here rounds to zero
UnderflowBound ==
    <<2, 4, 7, 0, 3, 2, 8, 2, 2, 9, 2, 0, 6, 2, 3, 2, 7, 2, 0, 8, 8, 2, 8, 4, 3, 9, 6, 4, 3, 4, 1, 1,
    0, 6, 8, 6, 1, 8, 2, 5, 2, 9, 9, 0, 1, 3, 0, 7, 1, 6, 2, 3, 8, 2, 2, 1, 2, 7, 9, 2, 8, 4, 1, 2,
    5, 0, 3, 3, 7, 7, 5, 3, 6, 3, 5, 1, 0, 4, 3, 7, 5, 9, 3, 2, 6, 4, 9, 9, 1, 8, 1, 8, 0, 8, 1, 7,
    9, 9, 6, 1, 8, 9, 8, 9, 8, 2, 8, 2, 3, 4, 7, 7, 2, 2, 8, 5, 8, 8, 6, 5, 4, 6, 3, 3, 2, 8, 3, 5,
    5, 1, 7, 7, 9, 6, 9, 8, 9, 8, 1, 9, 9, 3, 8, 7, 3, 9, 8, 0, 0, 5, 3, 9, 0, 9, 3, 9, 0, 6, 3, 1,
    5, 0, 3, 5, 6, 5, 9, 5, 1, 5, 5, 7, 0, 2, 2, 6, 3, 9, 2, 2, 9, 0, 8, 5, 8, 3, 9, 2, 4, 4, 9, 1,
    0, 5, 1, 8, 4, 4, 3, 5, 9, 3, 1, 8, 0, 2, 8, 4, 9, 9, 3, 6, 5, 3, 6, 1, 5, 2, 5, 0, 0, 3, 1, 9,
    3, 7, 0, 4, 5, 7, 6, 7, 8, 2, 4, 9, 2, 1, 9, 3, 6, 5, 6, 2, 3, 6, 6, 9, 8, 6, 3, 6, 5, 8, 4, 8,
    0, 7, 5, 7, 0, 0, 1, 5, 8, 5, 7, 6, 9, 2, 6, 9, 9, 0, 3, 7, 0, 6, 3, 1, 1, 9, 2, 8, 2, 7, 9, 5,
    5, 8, 5, 5, 1, 3, 3, 2, 9, 2, 7, 8, 3, 4, 3, 3, 8, 4, 0, 9, 3, 5, 1, 9, 7, 8, 0, 1, 5, 5, 3, 1,
    2, 4, 6, 5, 9, 7, 2, 6, 3, 5, 7, 9, 5, 7, 4, 6, 2, 2, 7, 6, 6, 4, 6, 5, 2, 7, 2, 8, 2, 7, 2, 2,
    0, 0, 5, 6, 3, 7, 4, 0, 0, 6, 4, 8, 5, 4, 9, 9, 9, 7, 7, 0, 9, 6, 5, 9, 9, 4, 7, 0, 4, 5, 4, 0,
    2, 0, 8, 2, 8, 1, 6, 6, 2, 2, 6, 2, 3, 7, 8, 5, 7, 3, 9, 3, 4, 5, 0, 7, 3, 6, 3, 3, 9, 0, 0, 7,
    9, 6, 7, 7, 6, 1, 9, 3, 0, 5, 7, 7, 5, 0, 6, 7, 4, 0, 1, 7, 6, 3, 2, 4, 6, 7, 3, 6, 0, 0, 9, 6,
    8, 9, 5, 1, 3, 4, 0, 5, 3, 5, 5, 3, 7, 4, 5, 8, 5, 1, 6, 6, 6, 1, 1, 3, 4, 2, 2, 3, 7, 6, 6, 6,
    7, 8, 6, 0, 4, 1, 6, 2, 1, 5, 9, 6, 8, 0, 4, 6, 1, 9, 1, 4, 4, 6, 7, 2, 9, 1, 8, 4, 0, 3, 0, 0,
    5, 3, 0, 0, 5, 7, 5, 3, 0, 8, 4, 9, 0, 4, 8, 7, 6, 5, 3, 9, 1, 7, 1, 1, 3, 8, 6, 5, 9, 1, 6, 4,
    6, 2, 3, 9, 5, 2, 4, 9, 1, 2, 6, 2, 3, 6, 5, 3, 8, 8, 1, 8, 7, 9, 6, 3, 6, 2, 3, 9, 3, 7, 3, 2,
    8, 0, 4, 2, 3, 8, 9, 1, 0, 1, 8, 6, 7, 2, 3, 4, 8, 4, 9, 7, 6, 6, 8, 2, 3, 5, 0, 8, 9, 8, 6, 3,
    3, 8, 8, 5, 8, 7, 9, 2, 5, 6, 2, 8, 3, 0, 2, 7, 5, 5, 9, 9, 5, 6, 5, 7, 5, 2, 4, 4, 5, 5, 5, 0,
    7, 2, 5, 5, 1, 8, 9, 3, 1, 3, 6, 9, 0, 8, 3, 6, 2, 5, 4, 7, 7, 9, 1, 8, 6, 9, 4, 8, 6, 6, 7, 9,
    9, 4, 9, 6, 8, 3, 2, 4, 0, 4, 9, 7, 0, 5, 8, 2, 1, 0, 2, 8, 5, 1, 3, 1, 8, 5, 4, 5, 1, 3, 9, 6,
    2, 1, 3, 8, 3, 7, 7, 2, 2, 8, 2, 6, 1, 4, 5, 4, 3, 7, 6, 9, 3, 4, 1, 2, 5, 3, 2, 0, 9, 8, 5, 9,
    1, 3, 2, 7, 6, 6, 7, 2, 3, 6, 3, 2, 8, 1, 2, 5>>

\* |a| rounds to infinity: strconv.ParseFloat returns ErrRange
FloatOverflows(a) ==
    /\ a.m # 0
    /\ \/ FloatOrder(a) > Len(OverflowBound)
       \/ /\ FloatOrder(a) = Len(OverflowBound)
          /\ CompareDigits(DecDigits(FloatAbs(a).m), OverflowBound) >= 0

\* |a| rounds to zero: strconv.ParseFloat returns 0 and no error
FloatUnderflows(a) ==
    /\ a.m # 0
    /\ \/ FloatOrder(a) < Len(UnderflowBound) - 1075
       \/ /\ FloatOrder(a) = Len(UnderflowBound) - 1075
          /\ CompareDigits(DecDigits(FloatAbs(a).m), UnderflowBound) <= 0

\* the digits of 5^1022; 2^-1022 = 5^1022 / 10^1022 = 2.2250738585072014e-308
\* is the smallest float64 of the normal range
NormalBound ==
    <<2, 2, 2, 5, 0, 7, 3, 8, 5, 8, 5, 0, 7, 2, 0, 1, 3, 8, 3, 0, 9, 0, 2, 3, 2, 7, 1, 7, 3, 3, 2, 4,
    0, 4, 0, 6, 4, 2, 1, 9, 2, 1, 5, 9, 8, 0, 4, 6, 2, 3, 3, 1, 8, 3, 0, 5, 5, 3, 3, 2, 7, 4, 1, 6,
    8, 8, 7, 2, 0, 4, 4, 3, 4, 8, 1, 3, 9, 1, 8, 1, 9, 5, 8, 5, 4, 2, 8, 3, 1, 5, 9, 0, 1, 2, 5, 1,
    1, 0, 2, 0, 5, 6, 4, 0, 6, 7, 3, 3, 9, 7, 3, 1, 0, 3, 5, 8, 1, 1, 0, 0, 5, 1, 5, 2, 4, 3, 4, 1,
    6, 1, 5, 5, 3, 4, 6, 0, 1, 0, 8, 8, 5, 6, 0, 1, 2, 3, 8, 5, 3, 7, 7, 7, 1, 8, 8, 2, 1, 1, 3, 0,
    7, 7, 7, 9, 9, 3, 5, 3, 2, 0, 0, 2, 3, 3, 0, 4, 7, 9, 6, 1, 0, 1, 4, 7, 4, 4, 2, 5, 8, 3, 6, 3,
    6, 0, 7, 1, 9, 2, 1, 5, 6, 5, 0, 4, 6, 9, 4, 2, 5, 0, 3, 7, 3, 4, 2, 0, 8, 3, 7, 5, 2, 5, 0, 8,
    0, 6, 6, 5, 0, 6, 1, 6, 6, 5, 8, 1, 5, 8, 9, 4, 8, 7, 2, 0, 4, 9, 1, 1, 7, 9, 9, 6, 8, 5, 9, 1,
    6, 3, 9, 6, 4, 8, 5, 0, 0, 6, 3, 5, 9, 0, 8, 7, 7, 0, 1, 1, 8, 3, 0, 4, 8, 7, 4, 7, 9, 9, 7, 8,
    0, 8, 8, 7, 7, 5, 3, 7, 4, 9, 9, 4, 9, 4, 5, 1, 5, 8, 0, 4, 5, 1, 6, 0, 5, 0, 5, 0, 9, 1, 5, 3,
    9, 9, 8, 5, 6, 5, 8, 2, 4, 7, 0, 8, 1, 8, 6, 4, 5, 1, 1, 3, 5, 3, 7, 9, 3, 5, 8, 0, 4, 9, 9, 2,
    1, 1, 5, 9, 8, 1, 0, 8, 5, 7, 6, 6, 0, 5, 1, 9, 9, 2, 4, 3, 3, 3, 5, 2, 1, 1, 4, 3, 5, 2, 3, 9,
    0, 1, 4, 8, 7, 9, 5, 6, 9, 9, 6, 0, 9, 5, 9, 1, 2, 8, 8, 8, 9, 1, 6, 0, 2, 9, 9, 2, 6, 4, 1, 5,
    1, 1, 0, 6, 3, 4, 6, 6, 3, 1, 3, 3, 9, 3, 6, 6, 3, 4, 7, 7, 5, 8, 6, 5, 1, 3, 0, 2, 9, 3, 7, 1,
    7, 6, 2, 0, 4, 7, 3, 2, 5, 6, 3, 1, 7, 8, 1, 4, 8, 5, 6, 6, 4, 3, 5, 0, 8, 7, 2, 1, 2, 2, 8, 2,
    8, 6, 3, 7, 6, 4, 2, 0, 4, 4, 8, 4, 6, 8, 1, 1, 4, 0, 7, 6, 1, 3, 9, 1, 1, 4, 7, 7, 0, 6, 2, 8,
    0, 1, 6, 8, 9, 8, 5, 3, 2, 4, 4, 1, 1, 0, 0, 2, 4, 1, 6, 1, 4, 4, 7, 4, 2, 1, 6, 1, 8, 5, 6, 7,
    1, 6, 6, 1, 5, 0, 5, 4, 0, 1, 5, 4, 2, 8, 5, 0, 8, 4, 7, 1, 6, 7, 5, 2, 9, 0, 1, 9, 0, 3, 1, 6,
    1, 3, 2, 2, 7, 7, 8, 8, 9, 6, 7, 2, 9, 7, 0, 7, 3, 7, 3, 1, 2, 3, 3, 3, 4, 0, 8, 6, 9, 8, 8, 9,
    8, 3, 1, 7, 5, 0, 6, 7, 8, 3, 8, 8, 4, 6, 9, 2, 6, 0, 9, 2, 7, 7, 3, 9, 7, 7, 9, 7, 2, 8, 5, 8,
    6, 5, 9, 6, 5, 4, 9, 4, 1, 0, 9, 1, 3, 6, 9, 0, 9, 5, 4, 0, 6, 1, 3, 6, 4, 6, 7, 5, 6, 8, 7, 0,
    2, 3, 9, 8, 6, 7, 8, 3, 1, 5, 2, 9, 0, 6, 8, 0, 9, 8, 4, 6, 1, 7, 2, 1, 0, 9, 2, 4, 6, 2, 5, 3,
    9, 6, 7, 2, 8, 5, 1, 5, 6, 2, 5>>

\* |a| is below the normal range, where the float64 values are 2^-1074 apart
FloatSubnormal(a) ==
    /\ a.m # 0
    /\ \/ FloatOrder(a) < Len(NormalBound) - 1022
       \/ /\ FloatOrder(a) = Len(NormalBound) - 1022
          /\ CompareDigits(DecDigits(FloatAbs(a).m), NormalBound) < 0

Zeros(n) == [i \in 1..n |-> 0]

\* the digits lo..hi of the digit string d times c, with the carry that comes
\* into digit hi, and the carry that leaves digit lo (by cases on the carry
\* of the lower half, which is thereby computed before the upper half)
RECURSIVE TimesRange(_, _, _, _, _)
TimesRange(d, c, lo, hi, carry) ==
    IF lo = hi
    THEN [digits |-> <<(d[lo] * c + carry) % 10>>, carry |-> (d[lo] * c + carry) \div 10]
    ELSE LET mid == (lo + hi) \div 2
             joined(low, high) == [digits |-> high.digits \o low.digits, carry |-> high.carry]
             upper(low) == IF low.carry = 0
                           THEN joined(low, TimesRange(d, c, lo, mid, 0))
                           ELSE joined(low, TimesRange(d, c, lo, mid, low.carry))
         IN  upper(TimesRange(d, c, mid + 1, hi, carry))

\* the digits of the integer d times c, for c >= 1
Times(d, c) ==
    LET whole(r) == IF r.carry = 0 THEN r.digits ELSE DecDigits(r.carry) \o r.digits
    IN  whole(TimesRange(d, c, 1, Len(d), 0))

\* a <= b for the integers of the digit strings a and b
DigitsLe(a, b) ==
    \/ Len(a) < Len(b)
    \/ Len(a) = Len(b) /\ CompareDigits(a, b) <= 0

\* the integer part of a / d, found digit by digit: places digits are still to
\* come after the digits of acc
RECURSIVE Quotient(_, _, _, _)
Quotient(a, d, places, acc) ==
    IF places = 0 THEN acc
    ELSE LET fits(c) == DigitsLe(Times(d, c) \o Zeros(places - 1), a)
         IN  Quotient(a, d, places - 1,
                      10 * acc + Cardinality({c \in 1..9 : fits(10 * acc + c)}))

\* a decimal below the normal range and above 2^-1075 as the float64 nearest
\* to it, a tie going to the even multiple of 2^-1074: halves is the
\* number of times 2^-1075 = 5^1075 / 10^1075 goes into |a|
FloatRound(a) ==
    LET digits == DecDigits(FloatAbs(a).m)
        shift == 1075 - a.e
        round(num, den) ==
            LET count(halves) ==
                    IF halves % 2 = 0 THEN halves \div 2
                    ELSE IF Times(den, halves) # num THEN (halves + 1) \div 2
                    ELSE IF ((halves - 1) \div 2) % 2 = 0 THEN (halves - 1) \div 2
                    ELSE (halves + 1) \div 2
            IN  count(Quotient(num, den, Len(num) - Len(den) + 1, 0))
        signed(k) == Subnormal(IF a.m < 0 THEN -k ELSE k)
    IN  signed(round(IF shift >= 0 THEN digits \o Zeros(shift) ELSE digits,
                     IF shift >= 0 THEN UnderflowBound
                     ELSE UnderflowBound \o Zeros(-shift)))

\* the float64 a value stands for: a decimal below the normal range is the
\* multiple of 2^-1074 nearest to it
FloatValue(a) ==
    IF a.sub \/ a.m = 0 THEN a
    ELSE IF FloatUnderflows(a) THEN FloatZero
    ELSE IF FloatSubnormal(a) THEN FloatRound(a)
    ELSE a

FloatIsZero(a) == FloatValue(a).m = 0

\* a >= b for a, b > 0, as float64 values. Two multiples of 2^-1074 compare by
\* their counts, and a multiple of 2^-1074 is below every decimal of the
\* normal range.
FloatMagGe(a, b) ==
    LET ge(x, y) ==
            IF x.sub /\ y.sub THEN x.m >= y.m
            ELSE IF x.sub THEN FALSE
            ELSE IF y.sub THEN TRUE
            ELSE IF FloatOrder(x) # FloatOrder(y)
            THEN FloatOrder(x) > FloatOrder(y)
            ELSE LET e == IF x.e > y.e THEN x.e ELSE y.e
                 IN  x.m * Pow10(e - x.e) >= y.m * Pow10(e - y.e)
    IN  ge(FloatValue(a), FloatValue(b))

\* a >= b as float64 values
FloatGe(a, b) ==
    LET ge(x, y) ==
            IF FloatSign(x) # FloatSign(y) THEN FloatSign(x) > FloatSign(y)
            ELSE IF FloatSign(x) = 0 THEN TRUE
            ELSE IF FloatSign(x) > 0 THEN FloatMagGe(x, y)
            ELSE FloatMagGe(FloatAbs(y), FloatAbs(x))
    IN  ge(FloatValue(a), FloatValue(b))

FloatLt(a, b) == ~FloatGe(a, b)

\* strconv.ParseFloat(s, 64): [ok, v, special]; special is "+inf", "-inf" or
\* "nan" for the values that are not numbers. A value out of range is an error.
ParseFloat(s) ==
    LET failed == [ok |-> FALSE, v |-> FloatZero, special |-> "none"]
        inRange(v) ==
            IF FloatOverflows(v) THEN failed
            ELSE [ok |-> TRUE, v |-> FloatValue(v), special |-> "none"]
        number(r) == IF ~r.ok THEN failed ELSE inRange(FloatOf(Negative(s), r))
        named(special) ==
            IF special # "none"
            THEN [ok |-> TRUE, v |-> FloatZero, special |-> special]
            ELSE number(ReadFloat(s))
    IN  named(Special(s))

(***************************************************************************)
(* primitive.ObjectID: 12 bytes; ObjectIDFromHex decodes 24 hex digits of  *)
(* either case. The zero id is NilObjectID.                                *)
(***************************************************************************)
NilObjectID == [i \in 1..12 |-> 0]

ObjectIDFromHex(s) ==
    IF Len(s) # 24 \/ \E i \in 1..Len(s) : ~IsHex(s[i])
    THEN [ok |-> FALSE, id |-> NilObjectID]
    ELSE [ok |-> TRUE,
          id |-> [i \in 1..12 |-> 16 * HexVal(s[2 * i - 1]) + HexVal(s[2 * i])]]

(***************************************************************************)
(* models.VehicleStatus and models.FuelCondition with their Valid().       *)
(***************************************************************************)
VehicleStatusActive == <<"a", "c", "t", "i", "v", "e">>
VehicleStatusInactive == <<"i", "n", "a", "c", "t", "i", "v", "e">>
VehicleStatusRepair == <<"r", "e", "p", "a", "i", "r">>
VehicleStatusSold == <<"s", "o", "l", "d">>
VehicleStatusRented == <<"r", "e", "n", "t", "e", "d">>

VehicleStatuses == {VehicleStatusActive, VehicleStatusInactive, VehicleStatusRepair,
                    VehicleStatusSold, VehicleStatusRented}

FuelConditionEmpty == <<"e", "m", "p", "t", "y">>
FuelConditionLow == <<"l", "o", "w">>
FuelConditionHalf == <<"h", "a", "l", "f">>
FuelConditionFull == <<"f", "u", "l", "l">>

FuelConditions == {FuelConditionEmpty, FuelConditionLow, FuelConditionHalf, FuelConditionFull}

StatusValid(s) == s \in VehicleStatuses

FuelConditionValid(s) == s \in FuelConditions

(***************************************************************************)
(* A message body is a sequence of JSON tokens: braces, white space and    *)
(* "key": value members. json.Unmarshal into models.TrackingDataRequest    *)
(* skips white space, needs one well-formed object, ignores unknown keys,  *)
(* lets the last of several equal keys win, leaves a missing field at its  *)
(* zero value and fails on a value of the wrong JSON type.                 *)
(***************************************************************************)
NoVal == [t |-> "none", s |-> <<>>, f |-> FloatZero]

Str(s) == [t |-> "string", s |-> s, f |-> FloatZero]

Num(f) == [t |-> "number", s |-> <<>>, f |-> f]

\* a float64 that JSON cannot write: an infinity or NaN
Unsupported == [t |-> "unsupported", s |-> <<>>, f |-> FloatZero]

LBrace == [t |-> "lbrace", key |-> "", val |-> NoVal]

RBrace == [t |-> "rbrace", key |-> "", val |-> NoVal]

Space == [t |-> "ws", key |-> "", val |-> NoVal]

Member(k, v) == [t |-> "member", key |-> k, val |-> v]

RequestStringKeys == {"vehicle_id", "location", "status", "fuel_condition"}

ZeroRequest ==
    [vehicle_id |-> <<>>, location |-> <<>>, mileage |-> FloatZero,
     status |-> <<>>, fuel_condition |-> <<>>]

\* The keys that occur in a JSON object with a capital letter, and the key each
\* of them equals when letters are compared without case. The decoder looks a
\* key up in the struct's json tags without regard to case.
FoldedKeys == [Page |-> "page", Status |-> "status"]

FoldKey(k) == IF k \in DOMAIN FoldedKeys THEN FoldedKeys[k] ELSE k

\* the members of a JSON object: [ok, fields, members], fields[k] the value of
\* the last member whose key matches "k", members all of them with matched keys
ParseObject(b) ==
    LET toks == SelectSeq(b, LAMBDA t : t.t # "ws")
        n == Len(toks)
        wellFormed == /\ n >= 2
                      /\ toks[1].t = "lbrace"
                      /\ toks[n].t = "rbrace"
                      /\ \A i \in 2..(n - 1) : toks[i].t = "member"
        at(k) == {i \in 2..(n - 1) : FoldKey(toks[i].key) = k}
    IN  IF ~wellFormed
        THEN [ok |-> FALSE, fields |-> <<>>, members |-> <<>>]
        ELSE [ok |-> TRUE,
              fields |-> [k \in {FoldKey(toks[i].key) : i \in 2..(n - 1)} |->
                             toks[CHOOSE i \in at(k) : \A j \in at(k) : j <= i].val],
              members |-> [i \in 1..(n - 2) |->
                              [key |-> FoldKey(toks[i + 1].key), val |-> toks[i + 1].val]]]

Unmarshal(b) ==
    LET o == ParseObject(b)
        has(k) == k \in DOMAIN o.fields
        typed == \A i \in 1..Len(o.members) :
                    /\ o.members[i].key \in RequestStringKeys => o.members[i].val.t = "string"
                    /\ o.members[i].key = "mileage" => o.members[i].val.t = "number"
        str(k) == IF has(k) THEN o.fields[k].s ELSE <<>>
    IN  IF ~o.ok \/ ~typed
        THEN [ok |-> FALSE, req |-> ZeroRequest]
        ELSE [ok |-> TRUE,
              req |-> [vehicle_id |-> str("vehicle_id"),
                       location |-> str("location"),
                       mileage |-> IF has("mileage") THEN o.fields["mileage"].f ELSE FloatZero,
                       status |-> str("status"),
                       fuel_condition |-> str("fuel_condition")]]

\* json.Marshal of a request: the canonical body, without white space.
Marshal(req) ==
    <<LBrace,
      Member("vehicle_id", Str(req.vehicle_id)),
      Member("location", Str(req.location)),
      Member("mileage", Num(req.mileage)),
      Member("status", Str(req.status)),
      Member("fuel_condition", Str(req.fuel_condition)),
      RBrace>>

(***************************************************************************)
(* models.TrackingDataRequest: Validate and ToTrackingData;                *)
(* models.TrackingData: Build.                                             *)
(***************************************************************************)
Validate(req) ==
    /\ ObjectIDFromHex(req.vehicle_id).ok
    /\ req.mileage.m >= 0
    /\ StatusValid(req.status)
    /\ FuelConditionValid(req.fuel_condition)

ToTrackingData(req) ==
    LET vid == ObjectIDFromHex(req.vehicle_id)
    IN  [ok |-> vid.ok,
         data |-> [id |-> NilObjectID,
                   vehicle_id |-> vid.id,
                   location |-> req.location,
                   mileage |-> req.mileage,
                   status |-> req.status,
                   fuel_condition |-> req.fuel_condition,
                   created_at |-> 0]]

TrackingDataBuild(data, t) ==
    [ok |-> /\ data.mileage.m >= 0
            /\ StatusValid(data.status)
            /\ FuelConditionValid(data.fuel_condition),
     data |-> [data EXCEPT !.created_at = t]]

(***************************************************************************)
(* Event store, write side: MongoTackingRepository.CreateTrackingData.     *)
(* InsertOne either fails (insertOK = FALSE) or appends the document under *)
(* a fresh, non-zero id, which is then written back to trackingData.ID.    *)
(***************************************************************************)
InsertedID(st) == [i \in 1..12 |-> IF i = 12 THEN Len(st) + 1 ELSE 0]

\* variant: the inserted id is not written back to trackingData.ID
CreateTrackingDataNoID(st, data, t, insertOK) ==
    LET built == TrackingDataBuild(data, t)
    IN  IF ~built.ok
        THEN [err |-> "build", store |-> st, data |-> data, inserts |-> 0]
        ELSE IF ~insertOK
        THEN [err |-> "storage", store |-> st, data |-> built.data, inserts |-> 1]
        ELSE [err |-> "nil", store |-> Append(st, built.data), data |-> built.data,
              inserts |-> 1]

\* variant: the record of a vehicle replaces the record the store has of it
CreateTrackingDataReplace(st, data, t, insertOK) ==
    LET built == TrackingDataBuild(data, t)
        doc == [built.data EXCEPT !.id = InsertedID(st)]
        same == {i \in 1..Len(st) : st[i].vehicle_id = doc.vehicle_id}
    IN  IF ~built.ok
        THEN [err |-> "build", store |-> st, data |-> data, inserts |-> 0]
        ELSE IF ~insertOK
        THEN [err |-> "storage", store |-> st, data |-> built.data, inserts |-> 1]
        ELSE IF same # {}
        THEN [err |-> "nil", store |-> [i \in 1..Len(st) |-> IF i \in same THEN doc ELSE st[i]],
              data |-> doc, inserts |-> 1]
        ELSE [err |-> "nil", store |-> Append(st, doc), data |-> doc, inserts |-> 1]

CreateTrackingData(st, data, t, insertOK) ==
    LET built == TrackingDataBuild(data, t)
        doc == [built.data EXCEPT !.id = InsertedID(st)]
    IN  IF ~built.ok
        THEN [err |-> "build", store |-> st, data |-> data, inserts |-> 0]
        ELSE IF ~insertOK
        THEN [err |-> "storage", store |-> st, data |-> built.data, inserts |-> 1]
        ELSE [err |-> "nil", store |-> Append(st, doc), data |-> doc, inserts |-> 1]

(***************************************************************************)
(* Domain service: MongoTrackingService.TrackVehicle.                      *)
(* creates counts the calls of the repository's create operation.          *)
(***************************************************************************)
\* variant: the record is created before the request is validated
TrackVehicleCreateFirst(st, req, t, insertOK) ==
    LET tr == ToTrackingData(req)
        cr == CreateTrackingData(st, tr.data, t, insertOK)
    IN  IF ~tr.ok
        THEN [err |-> "transform", store |-> st, data |-> tr.data, creates |-> 0]
        ELSE IF ~Validate(req)
        THEN [err |-> "validation", store |-> cr.store, data |-> cr.data, creates |-> 1]
        ELSE [err |-> cr.err, store |-> cr.store, data |-> cr.data, creates |-> 1]

TrackVehicle(st, req, t, insertOK) ==
    LET tr == ToTrackingData(req)
        cr == CreateTrackingData(st, tr.data, t, insertOK)
    IN  IF ~Validate(req)
        THEN [err |-> "validation", store |-> st, data |-> tr.data, creates |-> 0]
        ELSE IF ~tr.ok
        THEN [err |-> "transform", store |-> st, data |-> tr.data, creates |-> 0]
        ELSE [err |-> cr.err, store |-> cr.store, data |-> cr.data, creates |-> 1]

(***************************************************************************)
(* Inputs: vehicle ids, locations and message bodies.                      *)
(***************************************************************************)
VehicleA == <<"0", "7", "3", "5", "c", "c", "0", "f", "1", "a", "f", "7", "2", "a", "f", "5", "f", "7", "c", "d", "c", "d", "e", "e">>

VehicleB == <<"1", "7", "3", "5", "c", "c", "0", "f", "1", "a", "f", "7", "2", "a", "f", "5", "f", "7", "c", "d", "c", "d", "e", "e">>

VehicleAUpper == <<"0", "7", "3", "5", "C", "C", "0", "F", "1", "A", "F", "7", "2", "A", "F", "5", "F", "7", "C", "D", "C", "D", "E", "E">>

NotAnID == <<"n", "o", "t", "-", "a", "-", "v", "a", "l", "i", "d", "-", "i", "d">>

Bogus == <<"b", "o", "g", "u", "s">>

LocLa == <<"L", "a">>

LocLab == <<"L", "a", "b">>

LocLo == <<"l", "o">>

RequestA ==
    [vehicle_id |-> VehicleA, location |-> LocLa, mileage |-> Float(125, 1),
     status |-> VehicleStatusActive, fuel_condition |-> FuelConditionFull]

BodyOf(req, mileageVal) ==
    <<LBrace,
      Member("vehicle_id", Str(req.vehicle_id)),
      Member("location", Str(req.location)),
      Member("mileage", mileageVal),
      Member("status", Str(req.status)),
      Member("fuel_condition", Str(req.fuel_condition)),
      RBrace>>

\* a valid submission, as json.Marshal would write it
BodyValid == BodyOf(RequestA, Num(RequestA.mileage))

\* the same submission with white space and an unknown key
BodyValidSpaced ==
    <<Space, LBrace, Space,
      Member("vehicle_id", Str(VehicleA)), Space,
      Member("location", Str(LocLab)),
      Member("mileage", Num(Float(30, 0))),
      Member("note", Str(Bogus)),
      Member("status", Str(VehicleStatusRepair)),
      Member("fuel_condition", Str(FuelConditionLow)), Space,
      RBrace>>

\* cut off before the closing brace: not JSON
BodyTruncated == SubSeq(BodyValid, 1, Len(BodyValid) - 1)

\* "mileage": "12.5": a string where a number is required
BodyMileageString == BodyOf(RequestA, Str(<<"1", "2", ".", "5">>))

\* decodes, and fails validation
BodyBadStatus == BodyOf([RequestA EXCEPT !.status = Bogus], Num(RequestA.mileage))

Bodies == <<BodyValid, BodyValidSpaced, BodyTruncated, BodyMileageString, BodyBadStatus>>

(***************************************************************************)
(* Ingestion consumer: App.Consume.                                        *)
(*                                                                         *)
(* The dispatch loop receives a delivery and starts its handler goroutine. *)
(* The handler decodes, calls TrackVehicle, starts the publish goroutine   *)
(* and acks; a failure of decode or of TrackVehicle ends in a nack. Every  *)
(* broker and store call may fail (ok = FALSE). A nack the broker accepts  *)
(* with requeue = TRUE puts the delivery back on the subscription.         *)
(***************************************************************************)
NoRequest == ZeroRequest

\* the callers of TrackVehicle: the handler of each delivery, and 0 for another
\* client of the service
Callers == 0..NumDeliveries

NoCall == [open |-> FALSE, req |-> NoRequest, t |-> 0]

\* the clock readings a call can get: the latest one or a later one
MaxClock == 1

ClockReadings == {t \in {now, now + 1} : t <= MaxClock}

\* the call passes Validate, ToTrackingData and Build and gets to InsertOne
ReachesInsertOne(req, t) == TrackVehicle(store, req, t, FALSE).err = "storage"

\* msg.Body
Body(d) == Bodies[body[d]]

NoTrack == [called |-> FALSE, req |-> NoRequest, err |-> "none", creates |-> 0,
            before |-> <<>>, data |-> ToTrackingData(NoRequest).data]

\* variant: the nack asks the broker to requeue
HandlerNackArgsRequeue == [multiple |-> FALSE, requeue |-> TRUE]

\* msg.Nack(false, false)
HandlerNackArgs == [multiple |-> FALSE, requeue |-> FALSE]

\* msg.Ack(false)
HandlerAckArgs == [multiple |-> FALSE]

\* variant: the decoded request is encoded again instead of passing msg.Body on
PublishBodyReencoded(d) == Marshal(trackingData[d])

\* the argument of the publish goroutine: msg.Body
PublishBody(d) == Body(d)

ApplicationJSON == "application/json"

\* amqp.Publishing{ContentType: common.ApplicationJSON, Body: body}
Publishing(d) == [ContentType |-> ApplicationJSON, Body |-> PublishBody(d)]

\* variant: the handler waits for the publish goroutine before it acks
AckAfterPublish(d) == pc[d] = "ack" /\ pubpc[d] = "done"

\* variant: the handler may ack before it starts the publish goroutine
AckBeforeSpawn(d) == pc[d] \in {"spawn", "ack"}

\* the handler reaches msg.Ack right after the go statement
AckReady(d) == pc[d] = "ack"

\* what a call on the broker channel can return: on a closed connection, an error
BrokerAnswers == IF app.rabbitOpen THEN BOOLEAN ELSE {FALSE}

\* what InsertOne can return: on a disconnected client, an error
StoreAnswers == IF app.dbOpen THEN BOOLEAN ELSE {FALSE}

\* variant: the loop runs the handler itself and takes the next delivery when
\* the handler has returned
ReceiveSerialized ==
    /\ app.consuming
    /\ app.rabbitOpen
    /\ subscription # <<>>
    /\ \A e \in Deliveries : pc[e] \in {"waiting", "done"}
    /\ LET d == Head(subscription)
       IN  /\ pc[d] = "waiting"
           /\ pc' = [pc EXCEPT ![d] = "unmarshal"]
           /\ taken' = [taken EXCEPT ![d] = @ + 1]
    /\ subscription' = Tail(subscription)
    /\ UNCHANGED <<body, trackingData, trackErr, pubpc, pubErr, acks, outbound,
                   store, origin, now, lastTrack, q, sweep, resp, app, trackCall>>

\* variant: the loop ends when the handler of a delivery has failed
ReceiveUntilFailure ==
    /\ app.consuming
    /\ app.rabbitOpen
    /\ subscription # <<>>
    /\ \A e \in Deliveries : pc[e] \notin {"nackDecode", "nackTrack"}
    /\ \A e \in Deliveries : \A i \in 1..Len(acks[e]) : acks[e][i].op = "ack"
    /\ LET d == Head(subscription)
       IN  /\ pc[d] = "waiting"
           /\ pc' = [pc EXCEPT ![d] = "unmarshal"]
           /\ taken' = [taken EXCEPT ![d] = @ + 1]
    /\ subscription' = Tail(subscription)
    /\ UNCHANGED <<body, trackingData, trackErr, pubpc, pubErr, acks, outbound,
                   store, origin, now, lastTrack, q, sweep, resp, app, trackCall>>

\* for msg := range trackingDataMessages { go func(msg, channel) {...}(msg, channel) }
Receive ==
    /\ app.consuming
    /\ app.rabbitOpen
    /\ subscription # <<>>
    /\ LET d == Head(subscription)
       IN  /\ pc[d] = "waiting"
           /\ pc' = [pc EXCEPT ![d] = "unmarshal"]
           /\ taken' = [taken EXCEPT ![d] = @ + 1]
    /\ subscription' = Tail(subscription)
    /\ UNCHANGED <<body, trackingData, trackErr, pubpc, pubErr, acks, outbound,
                   store, origin, now, lastTrack, q, sweep, resp, app, trackCall>>

\* json.Unmarshal(msg.Body, &trackingData)
HandlerUnmarshal(d) ==
    /\ pc[d] = "unmarshal"
    /\ LET r == Unmarshal(Body(d))
       IN  /\ trackingData' = [trackingData EXCEPT ![d] = r.req]
           /\ pc' = [pc EXCEPT ![d] = IF r.ok THEN "track" ELSE "nackDecode"]
    /\ UNCHANGED <<subscription, body, trackErr, pubpc, pubErr, acks, taken,
                   outbound, store, origin, now, lastTrack, q, sweep, resp, app, trackCall>>

\* msg.Nack: the call is recorded; the broker discards or requeues the delivery
MsgNack(d, args, ok) ==
    /\ acks' = [acks EXCEPT ![d] = Append(@, [op |-> "nack", multiple |-> args.multiple,
                                              requeue |-> args.requeue, ok |-> ok])]
    /\ IF ok /\ args.requeue
       THEN /\ subscription' = Append(subscription, d)
            /\ pc' = [pc EXCEPT ![d] = "waiting"]
       ELSE /\ subscription' = subscription
            /\ pc' = [pc EXCEPT ![d] = "done"]

\* variant: the decode-failure branch returns without a nack
HandlerNackDecodeSilent(d) ==
    /\ pc[d] = "nackDecode"
    /\ pc' = [pc EXCEPT ![d] = "done"]
    /\ UNCHANGED <<subscription, acks, body, trackingData, trackErr, pubpc, pubErr, taken,
                   outbound, store, origin, now, lastTrack, q, sweep, resp, app, trackCall>>

\* variant: the return after the nack of the decode-failure branch is missing
HandlerNackDecodeFallsThrough(d) ==
    /\ pc[d] = "nackDecode"
    /\ \E ok \in BrokerAnswers :
          acks' = [acks EXCEPT ![d] = Append(@, [op |-> "nack", multiple |-> FALSE,
                                                 requeue |-> FALSE, ok |-> ok])]
    /\ pc' = [pc EXCEPT ![d] = "track"]
    /\ UNCHANGED <<subscription, body, trackingData, trackErr, pubpc, pubErr, taken,
                   outbound, store, origin, now, lastTrack, q, sweep, resp, app, trackCall>>

\* the decode-failure branch
HandlerNackDecode(d) ==
    /\ pc[d] = "nackDecode"
    /\ \E ok \in BrokerAnswers : MsgNack(d, HandlerNackArgs, ok)
    /\ UNCHANGED <<body, trackingData, trackErr, pubpc, pubErr, taken, outbound,
                   store, origin, now, lastTrack, q, sweep, resp, app, trackCall>>

\* trackingService.TrackVehicle(context.Background(), &trackingData), up to the
\* wait for the store: the call returns an error of Validate, ToTrackingData or
\* Build, or Build has stamped the record with a clock reading and InsertOne is
\* under way
HandlerTrack(d) ==
    /\ pc[d] = "track"
    /\ \E t \in ClockReadings :
          IF ReachesInsertOne(trackingData[d], t)
          THEN /\ trackCall' = [trackCall EXCEPT ![d] = [open |-> TRUE, req |-> trackingData[d],
                                                         t |-> t]]
               /\ now' = t
               /\ pc' = [pc EXCEPT ![d] = "insert"]
               /\ trackErr' = trackErr
          ELSE /\ trackErr' = [trackErr EXCEPT ![d] =
                                  TrackVehicle(store, trackingData[d], t, FALSE).err]
               /\ pc' = [pc EXCEPT ![d] = "nackTrack"]
               /\ UNCHANGED <<trackCall, now>>
    /\ UNCHANGED <<subscription, body, trackingData, pubpc, pubErr, acks, taken,
                   outbound, store, origin, lastTrack, q, sweep, resp, app>>

\* InsertOne returns and TrackVehicle with it: the record, stamped when Build
\* ran, is appended to the store as it is now, or the store fails
HandlerInsert(d) ==
    /\ pc[d] = "insert"
    /\ \E insertOK \in StoreAnswers :
          LET r == TrackVehicle(store, trackCall[d].req, trackCall[d].t, insertOK)
              inserted == Len(r.store) > Len(store)
          IN  /\ store' = r.store
              /\ origin' = IF inserted THEN Append(origin, d) ELSE origin
              /\ trackErr' = [trackErr EXCEPT ![d] = r.err]
              /\ pc' = [pc EXCEPT ![d] = IF r.err = "nil" THEN "spawn" ELSE "nackTrack"]
    /\ trackCall' = [trackCall EXCEPT ![d] = NoCall]
    /\ UNCHANGED <<subscription, body, trackingData, pubpc, pubErr, acks, taken,
                   outbound, now, lastTrack, q, sweep, resp, app>>

\* variant: the return after the nack is missing, the handler goes on to publish and ack
HandlerNackTrackFallsThrough(d) ==
    /\ pc[d] = "nackTrack"
    /\ \E ok \in BrokerAnswers :
          acks' = [acks EXCEPT ![d] = Append(@, [op |-> "nack", multiple |-> FALSE,
                                                 requeue |-> FALSE, ok |-> ok])]
    /\ pc' = [pc EXCEPT ![d] = "spawn"]
    /\ UNCHANGED <<subscription, body, trackingData, trackErr, pubpc, pubErr, taken,
                   outbound, store, origin, now, lastTrack, q, sweep, resp, app, trackCall>>

\* the TrackVehicle-failure branch
HandlerNackTrack(d) ==
    /\ pc[d] = "nackTrack"
    /\ \E ok \in BrokerAnswers : MsgNack(d, HandlerNackArgs, ok)
    /\ UNCHANGED <<body, trackingData, trackErr, pubpc, pubErr, taken, outbound,
                   store, origin, now, lastTrack, q, sweep, resp, app, trackCall>>

\* go func(body []byte) {...}(msg.Body)
HandlerSpawnPublish(d) ==
    /\ pc[d] = "spawn"
    /\ pubpc' = [pubpc EXCEPT ![d] = "publish"]
    /\ pc' = [pc EXCEPT ![d] = "ack"]
    /\ UNCHANGED <<subscription, body, trackingData, trackErr, pubErr, acks, taken,
                   outbound, store, origin, now, lastTrack, q, sweep, resp, app, trackCall>>

\* channel.PublishWithContext(ctx, "", a.cfg.VehicleQueue, false, false, publishing)
Publish(d) ==
    /\ pubpc[d] = "publish"
    /\ \E ok \in BrokerAnswers :
          /\ pubErr' = [pubErr EXCEPT ![d] = Append(@, ~ok)]
          /\ outbound' = IF ok
                         THEN Append(outbound, [from |-> d, msg |-> Publishing(d)])
                         ELSE outbound
    /\ pubpc' = [pubpc EXCEPT ![d] = "done"]
    /\ UNCHANGED <<subscription, body, pc, trackingData, trackErr, acks, taken,
                   store, origin, now, lastTrack, q, sweep, resp, app, trackCall>>

\* msg.Ack(false)
HandlerAck(d) ==
    /\ AckReady(d)
    /\ \E ok \in BrokerAnswers :
          acks' = [acks EXCEPT ![d] = Append(@, [op |-> "ack", multiple |-> HandlerAckArgs.multiple,
                                                 requeue |-> FALSE, ok |-> ok])]
    /\ pc' = [pc EXCEPT ![d] = "done"]
    /\ UNCHANGED <<subscription, body, trackingData, trackErr, pubpc, pubErr, taken,
                   outbound, store, origin, now, lastTrack, q, sweep, resp, app, trackCall>>

(***************************************************************************)
(* Filter builder: repositories.TrackingFilter and its Build.              *)
(***************************************************************************)
DefaultPage == 1

DefaultPageSize == 10

MaxPageSize == 100

FieldCreatedAt == <<"c", "r", "e", "a", "t", "e", "d", "_", "a", "t">>

FieldLocation == <<"l", "o", "c", "a", "t", "i", "o", "n">>

FieldMileage == <<"m", "i", "l", "e", "a", "g", "e">>

FieldStatus == <<"s", "t", "a", "t", "u", "s">>

FieldFuelCondition == <<"f", "u", "e", "l", "_", "c", "o", "n", "d", "i", "t", "i", "o", "n">>

FieldVehicleID == <<"v", "e", "h", "i", "c", "l", "e", "_", "i", "d">>

FieldID == <<"_", "i", "d">>

Asc == <<"a", "s", "c">>

Desc == <<"d", "e", "s", "c">>

\* the zero value of TrackingFilter
ZeroFilter ==
    [Page |-> 0, PageSize |-> 0, SortField |-> <<>>, SortOrder |-> <<>>,
     VehicleID |-> <<>>, Location |-> <<>>, Mileage |-> FloatZero,
     Status |-> <<>>, FuelCondition |-> <<>>, vehicleID |-> NilObjectID]

\* if t.Page == 0 { t.Page = 1 }
PageOrDefault(p) == IF p = 0 THEN DefaultPage ELSE p

\* if t.PageSize == 0 { t.PageSize = 10 }
PageSizeOrDefault(n) == IF n = 0 THEN DefaultPageSize ELSE n

\* variant: no clamp
ClampPageSizeOff(n) == n

\* if t.PageSize > 100 { t.PageSize = 100 }
ClampPageSize(n) == IF n > MaxPageSize THEN MaxPageSize ELSE n

\* if t.SortField == "" { t.SortField = "created_at" }
SortFieldOrDefault(s) == IF s = <<>> THEN FieldCreatedAt ELSE s

\* if t.SortOrder == "" { t.SortOrder = "asc" }
SortOrderOrDefault(s) == IF s = <<>> THEN Asc ELSE s

\* variant: the status is not checked
TrackingFilterBuildNoStatusCheck(t) ==
    LET t1 == [t EXCEPT !.Page = PageOrDefault(@),
                        !.PageSize = ClampPageSize(PageSizeOrDefault(@)),
                        !.SortField = SortFieldOrDefault(@),
                        !.SortOrder = SortOrderOrDefault(@)]
        vid == ObjectIDFromHex(t1.VehicleID)
        t2 == IF t1.VehicleID # <<>> THEN [t1 EXCEPT !.vehicleID = vid.id] ELSE t1
    IN  IF t1.VehicleID # <<>> /\ ~vid.ok
        THEN [err |-> "invalid id", filter |-> t1]
        ELSE IF t2.FuelCondition # <<>> /\ ~FuelConditionValid(t2.FuelCondition)
        THEN [err |-> "invalid fuel condition", filter |-> t2]
        ELSE [err |-> "nil", filter |-> t2]

\* Build: [err, filter]; the defaults are applied before an id or enumeration error is found
TrackingFilterBuild(t) ==
    LET t1 == [t EXCEPT !.Page = PageOrDefault(@),
                        !.PageSize = ClampPageSize(PageSizeOrDefault(@)),
                        !.SortField = SortFieldOrDefault(@),
                        !.SortOrder = SortOrderOrDefault(@)]
        vid == ObjectIDFromHex(t1.VehicleID)
        t2 == IF t1.VehicleID # <<>> THEN [t1 EXCEPT !.vehicleID = vid.id] ELSE t1
    IN  IF t1.VehicleID # <<>> /\ ~vid.ok
        THEN [err |-> "invalid id", filter |-> t1]
        ELSE IF t2.Status # <<>> /\ ~StatusValid(t2.Status)
        THEN [err |-> "invalid status", filter |-> t2]
        ELSE IF t2.FuelCondition # <<>> /\ ~FuelConditionValid(t2.FuelCondition)
        THEN [err |-> "invalid fuel condition", filter |-> t2]
        ELSE [err |-> "nil", filter |-> t2]

(***************************************************************************)
(* Domain service, read side: MongoTrackingService.FindTrackingData.       *)
(* query is url.Values: a function from the keys present to their          *)
(* non-empty lists of values; only the first value of a key is read.       *)
(***************************************************************************)
IntKeys == {"page", "limit"}

FloatKeys == {"mileage"}

\* the first loop: data, or the strconv error
QueryData(query) ==
    LET first(k) == query[k][1]
        converted(p) == IF p.special # "none" THEN Unsupported ELSE Num(p.v)
    IN  [ok |-> /\ \A k \in IntKeys \cap DOMAIN query : Atoi(first(k)).ok
                /\ \A k \in FloatKeys \cap DOMAIN query : ParseFloat(first(k)).ok,
         data |-> [k \in DOMAIN query |->
                      IF k \in IntKeys THEN Num(Float(Atoi(first(k)).v, 0))
                      ELSE IF k \in FloatKeys THEN converted(ParseFloat(first(k)))
                      ELSE Str(first(k))]]

\* json.Marshal(data) returns an error for a value JSON cannot write
MarshalMapOK(data) == \A k \in DOMAIN data : data[k].t # "unsupported"

\* the keys of the parameter bags, in the order json.Marshal writes map keys
KeyOrder == <<"Page", "Status", "foo", "fuel_condition", "limit", "location", "mileage", "page",
              "sort_by", "sort_order", "status", "vehicle_id">>

\* json.Marshal(data)
MarshalMap(data) ==
    LET keys == SelectSeq(KeyOrder, LAMBDA k : k \in DOMAIN data)
    IN  <<LBrace>> \o [i \in 1..Len(keys) |-> Member(keys[i], data[keys[i]])] \o <<RBrace>>

FilterStringKeys == {"sort_by", "sort_order", "vehicle_id", "location", "status", "fuel_condition"}

\* json.Unmarshal(buf, &filter): the json tags of TrackingFilter
FilterUnmarshal(b) ==
    LET o == ParseObject(b)
        has(k) == k \in DOMAIN o.fields
        typed == \A i \in 1..Len(o.members) :
                    LET k == o.members[i].key
                        v == o.members[i].val
                    IN  /\ k \in IntKeys => v.t = "number" /\ v.f.e = 0
                        /\ k \in FloatKeys => v.t = "number"
                        /\ k \in FilterStringKeys => v.t = "string"
        int(k) == IF has(k) THEN o.fields[k].f.m ELSE 0
        str(k) == IF has(k) THEN o.fields[k].s ELSE <<>>
    IN  IF ~o.ok \/ ~typed
        THEN [ok |-> FALSE, filter |-> ZeroFilter]
        ELSE [ok |-> TRUE,
              filter |-> [Page |-> int("page"),
                          PageSize |-> int("limit"),
                          SortField |-> str("sort_by"),
                          SortOrder |-> str("sort_order"),
                          VehicleID |-> str("vehicle_id"),
                          Location |-> str("location"),
                          Mileage |-> IF has("mileage") THEN o.fields["mileage"].f
                                      ELSE FloatZero,
                          Status |-> str("status"),
                          FuelCondition |-> str("fuel_condition"),
                          vehicleID |-> NilObjectID]]

(***************************************************************************)
(* Event store, read side: MongoTackingRepository.FindTrackingData.        *)
(***************************************************************************)
\* The pattern of {"$regex": "^" + pattern, "$options": "i"}. Of the characters
\* used, '.' matches any character and '+' repeats the item before it once or
\* more; a second '+' makes the repetition possessive. A '+' with nothing to
\* repeat makes the pattern invalid. items: the characters with their repetition
\* (0: once, 1: once or more, 2: once or more, possessive).
RegexCompile(pattern) ==
    LET n == Len(pattern)
        atoms == SelectSeq([i \in 1..n |-> i], LAMBDA i : pattern[i] # "+")
        next(i) == IF \E j \in (i + 1)..n : pattern[j] # "+"
                   THEN CHOOSE j \in (i + 1)..n :
                            pattern[j] # "+" /\ \A k \in (i + 1)..(j - 1) : pattern[k] = "+"
                   ELSE n + 1
        plus(i) == next(i) - i - 1
    IN  [ok |-> /\ (n > 0 => pattern[1] # "+")
                /\ \A k \in 1..Len(atoms) : plus(atoms[k]) <= 2,
         items |-> [k \in 1..Len(atoms) |->
                       [c |-> pattern[atoms[k]], plus |-> plus(atoms[k])]]]

\* the item matches the character, letters compared without case
RegexItemMatches(c, ch) == c = "." \/ ToLower(c) = ToLower(ch)

\* the longest run of characters of s from pos on that the item matches
RegexRun(c, s, pos) ==
    CHOOSE r \in 0..(Len(s) - pos + 1) :
        /\ \A j \in pos..(pos + r - 1) : RegexItemMatches(c, s[j])
        /\ pos + r <= Len(s) => ~RegexItemMatches(c, s[pos + r])

\* the items from the k-th on match s from pos on
RECURSIVE RegexMatchFrom(_, _, _, _)
RegexMatchFrom(items, k, s, pos) ==
    IF k > Len(items) THEN TRUE
    ELSE LET run == RegexRun(items[k].c, s, pos)
         IN  CASE items[k].plus = 0 -> run >= 1 /\ RegexMatchFrom(items, k + 1, s, pos + 1)
               [] items[k].plus = 1 ->
                     \E r \in 1..run : RegexMatchFrom(items, k + 1, s, pos + r)
               [] OTHER -> run >= 1 /\ RegexMatchFrom(items, k + 1, s, pos + run)

\* the document's field matches the pattern at its start
RegexPrefixMatch(pattern, s) ==
    RegexCompile(pattern).ok /\ RegexMatchFrom(RegexCompile(pattern).items, 1, s, 1)

\* bsonMFilter: the conjunction of the entries the filter adds
Matches(f, doc) ==
    /\ f.VehicleID # <<>> => doc.vehicle_id = f.vehicleID
    /\ f.Location # <<>> => RegexPrefixMatch(f.Location, doc.location)
    /\ ~FloatIsZero(f.Mileage) => FloatGe(doc.mileage, f.Mileage)
    /\ f.Status # <<>> => doc.status = f.Status
    /\ f.FuelCondition # <<>> => doc.fuel_condition = f.FuelCondition

\* variant: the sort order of the filter is not read
SortDirectionAscending(f) == 1

\* order := 1; if filter.SortOrder == "desc" { order = -1 }
SortDirection(f) == IF f.SortOrder = Desc THEN -1 ELSE 1

\* int64((filter.Page - 1) * filter.PageSize)
Skip(f) == (f.Page - 1) * f.PageSize

\* int64(filter.PageSize)
Limit(f) == f.PageSize

\* lexicographic order of sequences of numbers
LexLess(a, b) ==
    \E i \in 1..Len(b) :
        /\ i - 1 <= Len(a)
        /\ \A j \in 1..(i - 1) : a[j] = b[j]
        /\ i = Len(a) + 1 \/ a[i] < b[i]

Codes(s) == [i \in 1..Len(s) |-> CharCode(s[i])]

\* the order of two documents on a sort key; a field no document has compares equal
FieldLess(field, a, b) ==
    CASE field = FieldCreatedAt -> a.created_at < b.created_at
      [] field = FieldMileage -> FloatLt(a.mileage, b.mileage)
      [] field = FieldLocation -> LexLess(Codes(a.location), Codes(b.location))
      [] field = FieldStatus -> LexLess(Codes(a.status), Codes(b.status))
      [] field = FieldFuelCondition -> LexLess(Codes(a.fuel_condition), Codes(b.fuel_condition))
      [] field = FieldVehicleID -> LexLess(a.vehicle_id, b.vehicle_id)
      [] field = FieldID -> LexLess(a.id, b.id)
      [] OTHER -> FALSE

\* the orders in which the matching documents can come back: sorted on the key,
\* documents with equal keys in any order. The rank of a document is the number
\* of documents that go before it; the documents of one rank have equal keys
\* and fill the places from that rank on, in any order.
SortedOrders(st, f) ==
    LET matching == {i \in 1..Len(st) : Matches(f, st[i])}
        before(x, y) == IF SortDirection(f) = 1
                        THEN FieldLess(f.SortField, st[x], st[y])
                        ELSE FieldLess(f.SortField, st[y], st[x])
        orders(among, rank) ==
            LET tied(r) == {x \in among : rank[x] = r}
                anyOrder(g) == {p \in [1..Cardinality(g) -> g] :
                                   \A i, j \in 1..Cardinality(g) : i # j => p[i] # p[j]}
                RECURSIVE ranked(_, _)
                ranked(lo, hi) ==
                    IF lo > hi THEN {<<>>}
                    ELSE IF lo = hi THEN anyOrder(tied(lo))
                    ELSE {low \o high : low \in ranked(lo, (lo + hi) \div 2),
                                        high \in ranked((lo + hi) \div 2 + 1, hi)}
            IN  ranked(0, Cardinality(among) - 1)
        ranks(among) == [x \in among |-> Cardinality({y \in among : before(y, x)})]
        sorted(among) == orders(among, ranks(among))
    IN  sorted(matching)

Abs(n) == IF n < 0 THEN -n ELSE n

\* skip and limit on the cursor; a negative limit is its absolute value
PageOf(docs, skip, limit) ==
    SubSeq(docs, skip + 1, IF skip + Abs(limit) < Len(docs) THEN skip + Abs(limit) ELSE Len(docs))

\* what collection.Find can return for a built filter
FindResults(st, f) ==
    {PageOf([i \in 1..Len(p) |-> st[p[i]]], Skip(f), Limit(f)) : p \in SortedOrders(st, f)}

(***************************************************************************)
(* Direct calls of the service and of the repository, with their inputs.   *)
(***************************************************************************)
RequestA2 ==
    [vehicle_id |-> VehicleA, location |-> LocLab, mileage |-> Float(30, 0),
     status |-> VehicleStatusRepair, fuel_condition |-> FuelConditionLow]

RequestB ==
    [vehicle_id |-> VehicleB, location |-> LocLo, mileage |-> Float(125, 1),
     status |-> VehicleStatusActive, fuel_condition |-> FuelConditionFull]

ValidRequests == {RequestA, RequestA2, RequestB}

InvalidRequests ==
    {[RequestA EXCEPT !.vehicle_id = NotAnID],
     [RequestA EXCEPT !.vehicle_id = <<>>],
     [RequestA EXCEPT !.mileage = Float(-1, 0)],
     [RequestA EXCEPT !.mileage = Float(-5, 1)],
     [RequestA EXCEPT !.status = Bogus],
     [RequestA EXCEPT !.status = <<>>],
     [RequestA EXCEPT !.fuel_condition = Bogus],
     [RequestB EXCEPT !.fuel_condition = VehicleStatusActive]}

Requests == ValidRequests \cup InvalidRequests

\* TrackVehicle called on the service, as the consumer's handler calls it
TrackVehicleCall ==
    /\ Len(store) < MaxStore
    /\ \E req \in Requests, insertOK \in BOOLEAN, t \in {now, now + 1} :
          LET r == TrackVehicle(store, req, t, insertOK)
              inserted == Len(r.store) > Len(store)
          IN  /\ store' = r.store
              /\ origin' = IF inserted THEN Append(origin, 0) ELSE origin
              /\ now' = IF inserted THEN t ELSE now
              /\ lastTrack' = [called |-> TRUE, req |-> req, err |-> r.err,
                               creates |-> r.creates, before |-> store, data |-> r.data]
    /\ UNCHANGED <<ingestVars, q, sweep, resp, app, trackCall>>

\* the records the repository test creates: built from valid field values
SeedData == {ToTrackingData(req).data : req \in ValidRequests}

\* repo.CreateTrackingData called directly, before the query
RepoCreate ==
    /\ ~q.called
    /\ ~sweep.started
    /\ Len(store) < MaxStore
    /\ \E data \in SeedData, insertOK \in BOOLEAN, t \in {now, now + 1} :
          LET r == CreateTrackingData(store, data, t, insertOK)
              inserted == Len(r.store) > Len(store)
          IN  /\ store' = r.store
              /\ origin' = IF inserted THEN Append(origin, 0) ELSE origin
              /\ now' = IF inserted THEN t ELSE now
    /\ UNCHANGED <<ingestVars, lastTrack, q, sweep, resp, app, trackCall>>

\* the record the create loop makes in its i-th round: the seed records in turn
LoopData(i) ==
    LET seeds == <<RequestA, RequestA2, RequestB>>
    IN  ToTrackingData(seeds[(i % Len(seeds)) + 1]).data

\* for i := 0; i < n; i++ { repo.CreateTrackingData(ctx, trackingData) }: the
\* store after the rounds lo..hi, taken by halves (by cases on the first half,
\* which is thereby computed before the second); round i reads the clock at
\* t + tick * i
RECURSIVE CreateRange(_, _, _, _, _)
CreateRange(st, lo, hi, t, tick) ==
    IF lo > hi THEN st
    ELSE IF lo = hi THEN CreateTrackingData(st, LoopData(lo), t + tick * lo, TRUE).store
    ELSE LET second(first) ==
                 IF first = st THEN CreateRange(st, (lo + hi) \div 2 + 1, hi, t, tick)
                 ELSE CreateRange(first, (lo + hi) \div 2 + 1, hi, t, tick)
         IN  second(CreateRange(st, lo, (lo + hi) \div 2, t, tick))

\* the create loop of the repository test on an empty store: n records, all
\* within one reading of the clock (tick = 0) or each at a later reading
CreateLoop(sizes, ticks) ==
    /\ ~q.called
    /\ ~sweep.started
    /\ store = <<>>
    /\ \E n \in sizes, tick \in ticks :
          /\ store' = CreateRange(store, 1, n, now, tick)
          /\ origin' = [i \in 1..n |-> 0]
          /\ now' = now + tick * n
    /\ UNCHANGED <<ingestVars, lastTrack, q, sweep, resp, app, trackCall>>

\* the loop before the paging loop: more records than one page of two holds
CreateLoopPages == CreateLoop((MaxStore + 1)..MaxLoop, {0, 1})

\* the loop before a query: as many records as the largest page holds, and one more
CreateLoopSorted == CreateLoop({MaxPageSize, MaxPageSize + 1}, {1})

\* a parameter that is not in the bag
Absent == <<"(absent)">>

\* url.Values with one value for every key that is not Absent
BagOf(choice) ==
    [k \in {k \in DOMAIN choice : choice[k] # Absent} |-> <<choice[k]>>]

PageChoices == {Absent, <<"0">>, <<"1">>, <<"2">>, <<"-", "1">>, <<"x">>}

LimitChoices == {Absent, <<"0">>, <<"1">>, <<"2">>, <<"5">>, <<"1", "0", "0">>, <<"1", "0", "1">>, <<"5", "0", "0">>,
                 <<"-", "5">>, <<"1", ".", "5">>}

PagingBags == {BagOf([page |-> p, limit |-> l]) : p \in PageChoices, l \in LimitChoices}

SortBags ==
    {BagOf([sort_by |-> f, sort_order |-> o, limit |-> l]) :
        f \in {Absent, FieldLocation, FieldMileage, Bogus},
        o \in {Absent, Asc, Desc},
        l \in {Absent, <<"1">>}}

FilterBags ==
    {BagOf([vehicle_id |-> v, location |-> l, mileage |-> m, status |-> st,
            fuel_condition |-> fc]) :
        v \in {Absent, VehicleA, VehicleB},
        l \in {Absent, <<"l", "a">>, <<"L", ".">>},
        m \in {Absent, <<"1", "2", ".", "5">>, <<"0">>},
        st \in {Absent, VehicleStatusActive},
        fc \in {Absent, FuelConditionFull}}

EdgeBags ==
    {BagOf([page |-> <<>>]),
     BagOf([limit |-> <<"a", "b", "c">>]),
     BagOf([mileage |-> <<"a", "b", "c">>]),
     BagOf([mileage |-> <<>>]),
     BagOf([mileage |-> <<"-", "1">>]),
     BagOf([mileage |-> <<"3", "0", ".", "0">>]),
     BagOf([mileage |-> <<"1", "2", ".", "6">>]),
     BagOf([mileage |-> <<"1", "e", "2">>]),
     BagOf([mileage |-> <<"1", "2", "5", "E", "-", "1">>]),
     BagOf([mileage |-> <<"1", "e">>]),
     BagOf([mileage |-> <<"1", "_", "3">>]),
     BagOf([mileage |-> <<"1", "_">>]),
     BagOf([mileage |-> <<"0", "x", "1", "p", "4">>]),
     BagOf([mileage |-> <<"0", "x", "1">>]),
     BagOf([mileage |-> <<"i", "n", "f">>]),
     BagOf([mileage |-> <<"-", "I", "n", "f", "i", "n", "i", "t", "y">>]),
     BagOf([mileage |-> <<"n", "a", "n">>]),
     BagOf([mileage |-> <<"1", "e", "3", "0", "9">>]),
     BagOf([mileage |-> <<"1", ".", "7", "9", "7", "6", "9", "4", "e", "3", "0", "8">>]),
     BagOf([mileage |-> <<"1", ".", "7", "9", "7", "6", "9", "3", "1", "3", "e", "3", "0", "8">>]),
     BagOf([mileage |-> <<"2", "e", "-", "3", "2", "4">>]),
     BagOf([mileage |-> <<"3", "e", "-", "3", "2", "4">>]),
     BagOf([mileage |-> <<"4", "e", "-", "3", "2", "4">>]),
     BagOf([vehicle_id |-> NotAnID]),
     BagOf([vehicle_id |-> <<>>]),
     BagOf([vehicle_id |-> VehicleAUpper]),
     BagOf([status |-> Bogus]),
     BagOf([status |-> <<>>]),
     BagOf([status |-> <<"A", "c", "t", "i", "v", "e">>]),
     BagOf([status |-> VehicleStatusRepair]),
     BagOf([fuel_condition |-> Bogus]),
     BagOf([fuel_condition |-> <<>>]),
     BagOf([fuel_condition |-> FuelConditionLow]),
     BagOf([location |-> <<".">>]),
     BagOf([location |-> <<"L", "A", "B">>]),
     BagOf([location |-> <<"b">>]),
     BagOf([location |-> <<"L", "+">>]),
     BagOf([location |-> <<"+">>]),
     BagOf([location |-> <<"l", "+", "+", "a">>]),
     BagOf([location |-> <<".", "+", "b">>]),
     BagOf([location |-> <<".", "+", "+", "b">>]),
     BagOf([location |-> <<"a", "+", "+", "+">>]),
     BagOf([sort_order |-> <<"D", "E", "S", "C">>]),
     BagOf([foo |-> Bogus]),
     BagOf([Page |-> <<"2">>]),
     BagOf([Page |-> <<"2">>, page |-> <<"1">>]),
     BagOf([Status |-> Bogus]),
     BagOf([Status |-> VehicleStatusRepair]),
     BagOf([Status |-> VehicleStatusRepair, status |-> VehicleStatusActive]),
     BagOf([foo |-> Bogus, vehicle_id |-> VehicleA, sort_by |-> FieldLocation]),
     BagOf([foo |-> Bogus, page |-> <<"2">>, limit |-> <<"1">>]),
     BagOf([foo |-> Bogus, status |-> Bogus]),
     BagOf([vehicle_id |-> VehicleA, status |-> Bogus]),
     BagOf([vehicle_id |-> NotAnID, page |-> <<"2">>]),
     BagOf([page |-> <<"x">>, status |-> VehicleStatusActive]),
     BagOf([limit |-> <<"5", "0", "0">>, fuel_condition |-> Bogus]),
     [page |-> <<<<"2">>, <<"x">>>>, limit |-> <<<<"1">>, <<"5", "0", "0">>>>],
     [status |-> <<VehicleStatusActive, Bogus>>]}

Bags == PagingBags \cup SortBags \cup FilterBags \cup EdgeBags

NoQuery ==
    [called |-> FALSE, params |-> <<>>, err |-> "none", findIssued |-> FALSE,
     filter |-> ZeroFilter, result |-> <<>>]

\* the service's FindTrackingData: every return of the service and of the
\* repository it calls. findIssued: collection.Find was called with the filter.
\* The call writes nothing that a later call reads, so a behaviour holds one
\* call, on any store the program can have built.
ServiceFind(bags) ==
    /\ ~q.called
    /\ \E query \in bags, findOK \in BOOLEAN :
        LET d == QueryData(query)
            u == FilterUnmarshal(MarshalMap(d.data))
            b == TrackingFilterBuild(u.filter)
            outcome(err, issued, f, res) ==
                [called |-> TRUE, params |-> query, err |-> err, findIssued |-> issued,
                 filter |-> f, result |-> res]
        IN     IF ~d.ok
               THEN q' = outcome("syntax", FALSE, ZeroFilter, <<>>)
               ELSE IF ~MarshalMapOK(d.data)
               THEN q' = outcome("marshal", FALSE, ZeroFilter, <<>>)
               ELSE IF ~u.ok
               THEN q' = outcome("unmarshal", FALSE, ZeroFilter, <<>>)
               ELSE IF b.err # "nil"
               THEN q' = outcome(b.err, FALSE, b.filter, <<>>)
               ELSE IF ~findOK \/ Skip(b.filter) < 0 \/ ~RegexCompile(b.filter.Location).ok
               THEN q' = outcome("storage", TRUE, b.filter, <<>>)
               ELSE \E res \in FindResults(store, b.filter) :
                       q' = outcome("nil", TRUE, b.filter, res)

\* the call with any of the parameter bags
ServiceFindTrackingData == ServiceFind(Bags)

\* FindTrackingData called on the service
FindTrackingData ==
    /\ ServiceFindTrackingData
    /\ UNCHANGED <<ingestVars, store, origin, now, lastTrack, sweep, resp, app, trackCall>>

\* the bags asked of a store that the create loop has filled: the limits around
\* the largest page size, on the first and the second page, in both directions
ClampBags ==
    {BagOf([page |-> p, limit |-> l, sort_order |-> o]) :
        p \in {Absent, <<"2">>},
        l \in {Absent, <<"1", "0", "0">>, <<"1", "0", "1">>, <<"5", "0", "0">>},
        o \in {Absent, Desc}}

\* FindTrackingData called on the service, after the create loop as well
FindSorted ==
    /\ ServiceFind(IF Len(store) <= MaxStore THEN Bags ELSE ClampBags)
    /\ UNCHANGED <<ingestVars, store, origin, now, lastTrack, sweep, resp, app, trackCall>>

(***************************************************************************)
(* HTTP handler of GET /api/v1/tracking-data:                              *)
(* V1TrackingHandler.FindTrackingData.                                     *)
(***************************************************************************)
MethodGet == "GET"

Methods == {MethodGet, "POST", "DELETE"}

StatusOK == 200
StatusBadRequest == 400
StatusNotFound == 404
StatusMethodNotAllowed == 405

NoResponse ==
    [called |-> FALSE, method |-> "", status |-> 0, message |-> "", data |-> <<>>]

\* common.HandleError(status, w, err)
HandleError(method, status, err) ==
    [called |-> TRUE, method |-> method, status |-> status, message |-> err, data |-> <<>>]

\* variant: an empty result is answered like a non-empty one
ServiceResponseEmptyOK(method, call) ==
    IF call.err # "nil"
    THEN HandleError(method, StatusBadRequest, call.err)
    ELSE [called |-> TRUE, method |-> method, status |-> StatusOK,
          message |-> "successfully fetched tracking data", data |-> call.result]

\* the handler after the service call has returned (vehicles, err)
ServiceResponse(method, call) ==
    IF call.err # "nil"
    THEN HandleError(method, StatusBadRequest, call.err)
    ELSE IF Len(call.result) = 0
    THEN HandleError(method, StatusNotFound, "not found")
    ELSE [called |-> TRUE, method |-> method, status |-> StatusOK,
          message |-> "successfully fetched tracking data", data |-> call.result]

\* one request to the endpoint
HandlerFindTrackingData ==
    /\ ~resp.called
    /\ \E method \in Methods :
          IF method # MethodGet
          THEN /\ resp' = HandleError(method, StatusMethodNotAllowed, "method was not allowed")
               /\ q' = q
          ELSE /\ ServiceFindTrackingData
               /\ resp' = ServiceResponse(method, q')
    /\ UNCHANGED <<ingestVars, store, origin, now, lastTrack, sweep, app, trackCall>>

(***************************************************************************)
(* The paging loop of the repository test: FindTrackingData called on the  *)
(* repository for page 1, 2, ... of one filter over a store that no longer *)
(* changes. Every call is a query of its own: the store sorts again, and   *)
(* documents with equal sort keys come back in any order.                  *)
(***************************************************************************)
NoSweep == [started |-> FALSE, filter |-> ZeroFilter, pages |-> <<>>, err |-> "none"]

\* &TrackingFilter{Page: i, PageSize: 2} and its variations
SweepFilters ==
    {[ZeroFilter EXCEPT !.PageSize = k, !.SortField = s, !.SortOrder = o, !.VehicleID = v] :
        k \in {0, 1, 2},
        s \in {<<>>, FieldLocation},
        o \in {<<>>, Desc},
        v \in {<<>>, VehicleA}}

\* the documents of the store a built filter selects
Matching(st, f) == {i \in 1..Len(st) : Matches(f, st[i])}

\* the number of pages of size k that n documents fill: ceil(n / k)
PagesNeeded(n, k) == (n + k - 1) \div k

\* for i := 1; i <= 5; i++ { repo.FindTrackingData(ctx, &TrackingFilter{Page: i, ...}) }
FindPage ==
    /\ ~q.called
    /\ sweep.err = "none"
    /\ \E f \in (IF sweep.started THEN {sweep.filter} ELSE SweepFilters), findOK \in BOOLEAN :
          LET i == Len(sweep.pages) + 1
              b == TrackingFilterBuild([f EXCEPT !.Page = i])
              n == Cardinality(Matching(store, b.filter))
              after(err, pages) ==
                  [started |-> TRUE, filter |-> f, pages |-> pages, err |-> err]
          IN  /\ b.err = "nil" => i <= PagesNeeded(n, b.filter.PageSize)
              /\ IF b.err # "nil"
                 THEN sweep' = after(b.err, sweep.pages)
                 ELSE IF ~findOK
                 THEN sweep' = after("storage", sweep.pages)
                 ELSE \E res \in FindResults(store, b.filter) :
                         sweep' = after("none", Append(sweep.pages, res))
    /\ UNCHANGED <<ingestVars, store, origin, now, lastTrack, q, resp, app, trackCall>>

(***************************************************************************)
(* The process: NewApp's signal goroutine and App.Shutdown.                *)
(* shutdown is the channel a.shutdown (capacity 1) with the values posted  *)
(* and not yet received. Shutdown receives one value, then its deferred    *)
(* calls run last-registered first: the broker connection is closed, the   *)
(* database client is disconnected, the channel is closed.                 *)
(*                                                                         *)
(* posted lists the values sent on the channel in the order of the sends.  *)
(* A send on the channel after close(a.shutdown) panics, which ends the    *)
(* process (panicked). db and rabbitConn say whether a.db and a.rabbitConn *)
(* are set; deferDb and deferConn are the values Shutdown's deferred calls *)
(* were given, each read at its own defer statement. consuming says that   *)
(* Run has started the Consume goroutine.                                  *)
(***************************************************************************)
ShutdownCap == 1

\* the process after Run has started the consumer and the HTTP server, with
\* Shutdown called and waiting on the channel
AppRunning ==
    [signalled |-> FALSE, shutdown |-> <<>>, closed |-> FALSE, phase |-> "receive",
     result |-> "none", rabbitOpen |-> TRUE, dbOpen |-> TRUE,
     posted |-> <<>>, panicked |-> FALSE, run |-> "returned", pending |-> "none",
     server |-> "listening", consuming |-> TRUE, db |-> TRUE, rabbitConn |-> TRUE,
     deferDb |-> TRUE, deferConn |-> TRUE]

\* the process after NewApp: Run and Shutdown are not yet called
AppCreated ==
    [AppRunning EXCEPT !.phase = "idle", !.rabbitOpen = FALSE, !.dbOpen = FALSE,
                       !.run = "start", !.server = "none", !.consuming = FALSE,
                       !.db = FALSE,
                       !.rabbitConn = FALSE, !.deferDb = FALSE, !.deferConn = FALSE]

\* a send on a.shutdown can proceed: the buffer has room, or the channel is
\* closed and the send panics
CanSend(a) == a.closed \/ Len(a.shutdown) < ShutdownCap

\* a.shutdown <- v
ChanSend(a, v) ==
    IF a.closed
    THEN [a EXCEPT !.panicked = TRUE]
    ELSE [a EXCEPT !.shutdown = Append(@, v), !.posted = Append(@, v)]

\* go func() { defer close(exit); <-exit; shutdown <- nil }()
Signal ==
    /\ ~app.signalled
    /\ ~app.panicked
    /\ CanSend(app)
    /\ app' = [ChanSend(app, "nil") EXCEPT !.signalled = TRUE]
    /\ UNCHANGED <<ingestVars, store, origin, now, lastTrack, q, sweep, resp, trackCall>>

\* Run up to mongo.Connect: the configuration is missing, the connection fails,
\* or a.db is set
RunConnect ==
    /\ app.run = "start"
    /\ ~app.panicked
    /\ \E outcome \in {"ErrConfigMissing", "connect", "ok"} :
          app' = IF outcome = "ok"
                 THEN [app EXCEPT !.run = "rabbit", !.db = TRUE, !.dbOpen = TRUE]
                 ELSE [app EXCEPT !.run = "failed", !.pending = outcome]
    /\ UNCHANGED <<ingestVars, store, origin, now, lastTrack, q, sweep, resp, trackCall>>

\* a.rabbitConn = common.NewRabbitConnection(a.cfg.RabbitmqUrl)
RunNewRabbitConnection ==
    /\ app.run = "rabbit"
    /\ ~app.panicked
    /\ app' = [app EXCEPT !.run = "channel", !.rabbitConn = TRUE]
    /\ UNCHANGED <<ingestVars, store, origin, now, lastTrack, q, sweep, resp, trackCall>>

\* channel, err := a.rabbitConn.Channel()
RunChannel ==
    /\ app.run = "channel"
    /\ ~app.panicked
    /\ \E ok \in BOOLEAN :
          app' = IF ok
                 THEN [app EXCEPT !.run = "declare", !.rabbitOpen = TRUE]
                 ELSE [app EXCEPT !.run = "failed", !.pending = "channel"]
    /\ UNCHANGED <<ingestVars, store, origin, now, lastTrack, q, sweep, resp, trackCall>>

\* _, err = channel.QueueDeclare(a.cfg.TrackingQueue, true, ...)
RunQueueDeclare ==
    /\ app.run = "declare"
    /\ ~app.panicked
    /\ \E ok \in BOOLEAN :
          app' = IF ok
                 THEN [app EXCEPT !.run = "consume"]
                 ELSE [app EXCEPT !.run = "failed", !.pending = "declare"]
    /\ UNCHANGED <<ingestVars, store, origin, now, lastTrack, q, sweep, resp, trackCall>>

\* trackingDataMessages, err := channel.Consume(a.cfg.TrackingQueue, ...)
RunConsume ==
    /\ app.run = "consume"
    /\ ~app.panicked
    /\ \E ok \in BOOLEAN :
          app' = IF ok
                 THEN [app EXCEPT !.run = "serve"]
                 ELSE [app EXCEPT !.run = "failed", !.pending = "consume"]
    /\ UNCHANGED <<ingestVars, store, origin, now, lastTrack, q, sweep, resp, trackCall>>

\* go a.Consume(channel, trackingDataMessages, trackingService), then the HTTP
\* server goroutine is started and Run returns
RunServe ==
    /\ app.run = "serve"
    /\ ~app.panicked
    /\ app' = [app EXCEPT !.run = "returned", !.consuming = TRUE,
                          !.server = "listening"]
    /\ UNCHANGED <<ingestVars, store, origin, now, lastTrack, q, sweep, resp, trackCall>>

\* a.shutdown <- err; return
RunSendFailure ==
    /\ app.run = "failed"
    /\ ~app.panicked
    /\ CanSend(app)
    /\ app' = [ChanSend(app, app.pending) EXCEPT !.run = "returned"]
    /\ UNCHANGED <<ingestVars, store, origin, now, lastTrack, q, sweep, resp, trackCall>>

\* go func() { err = http.ListenAndServe(...); if !errors.Is(err, ErrServerClosed) { a.shutdown <- err } }()
ServerFail ==
    /\ app.server = "listening"
    /\ ~app.panicked
    /\ CanSend(app)
    /\ app' = [ChanSend(app, "listen") EXCEPT !.server = "returned"]
    /\ UNCHANGED <<ingestVars, store, origin, now, lastTrack, q, sweep, resp, trackCall>>

\* Shutdown is called: defer func(ctx, db){...}(ctx, a.db) reads a.db
ShutdownDeferDb ==
    /\ app.phase = "idle"
    /\ ~app.panicked
    /\ app' = [app EXCEPT !.phase = "deferConn", !.deferDb = app.db]
    /\ UNCHANGED <<ingestVars, store, origin, now, lastTrack, q, sweep, resp, trackCall>>

\* defer func(conn){...}(a.rabbitConn) reads a.rabbitConn
ShutdownDeferConn ==
    /\ app.phase = "deferConn"
    /\ ~app.panicked
    /\ app' = [app EXCEPT !.phase = "receive", !.deferConn = app.rabbitConn]
    /\ UNCHANGED <<ingestVars, store, origin, now, lastTrack, q, sweep, resp, trackCall>>

\* variant: Shutdown waits until no handler is in flight
ShutdownReceiveDrained ==
    /\ app.phase = "receive"
    /\ app.shutdown # <<>>
    /\ \A d \in Deliveries : taken[d] > 0 => pc[d] = "done"
    /\ app' = [app EXCEPT !.result = Head(app.shutdown), !.shutdown = Tail(@),
                          !.phase = "closeRabbit"]
    /\ UNCHANGED <<ingestVars, store, origin, now, lastTrack, q, sweep, resp, trackCall>>

\* return <-a.shutdown: the value is received, the deferred calls are still to run
ShutdownReceive ==
    /\ app.phase = "receive"
    /\ app.shutdown # <<>>
    /\ app' = [app EXCEPT !.result = Head(app.shutdown), !.shutdown = Tail(@),
                          !.phase = "closeRabbit"]
    /\ UNCHANGED <<ingestVars, store, origin, now, lastTrack, q, sweep, resp, trackCall>>

\* conn.Close(): the deliveries channel of the consumer is closed with the connection
ShutdownCloseRabbit ==
    /\ app.phase = "closeRabbit"
    /\ app' = [app EXCEPT !.rabbitOpen = IF app.deferConn THEN FALSE ELSE @,
                          !.phase = "disconnect"]
    /\ UNCHANGED <<ingestVars, store, origin, now, lastTrack, q, sweep, resp, trackCall>>

\* db.Disconnect(ctx)
ShutdownDisconnect ==
    /\ app.phase = "disconnect"
    /\ app' = [app EXCEPT !.dbOpen = IF app.deferDb THEN FALSE ELSE @,
                          !.phase = "closeChannel"]
    /\ UNCHANGED <<ingestVars, store, origin, now, lastTrack, q, sweep, resp, trackCall>>

\* close(a.shutdown), and Shutdown returns the value it received
ShutdownReturn ==
    /\ app.phase = "closeChannel"
    /\ app' = [app EXCEPT !.closed = TRUE, !.phase = "returned"]
    /\ UNCHANGED <<ingestVars, store, origin, now, lastTrack, q, sweep, resp, trackCall>>

\* the consumer with its deliveries queued
Init ==
    /\ subscription = [i \in 1..NumDeliveries |-> i]
    /\ body \in [Deliveries -> 1..Len(Bodies)]
    /\ pc = [d \in Deliveries |-> "waiting"]
    /\ trackingData = [d \in Deliveries |-> NoRequest]
    /\ trackErr = [d \in Deliveries |-> "none"]
    /\ pubpc = [d \in Deliveries |-> "none"]
    /\ pubErr = [d \in Deliveries |-> <<>>]
    /\ acks = [d \in Deliveries |-> <<>>]
    /\ taken = [d \in Deliveries |-> 0]
    /\ outbound = <<>>
    /\ store = <<>>
    /\ origin = <<>>
    /\ now = 0
    /\ lastTrack = NoTrack
    /\ q = NoQuery
    /\ sweep = NoSweep
    /\ resp = NoResponse
    /\ app = AppRunning
    /\ trackCall = [c \in Callers |-> NoCall]

Next ==
    \/ Receive
    \/ \E d \in Deliveries : HandlerUnmarshal(d)
    \/ \E d \in Deliveries : HandlerNackDecode(d)
    \/ \E d \in Deliveries : HandlerTrack(d)
    \/ \E d \in Deliveries : HandlerInsert(d)
    \/ \E d \in Deliveries : HandlerNackTrack(d)
    \/ \E d \in Deliveries : HandlerSpawnPublish(d)
    \/ \E d \in Deliveries : Publish(d)
    \/ \E d \in Deliveries : HandlerAck(d)

Spec == Init /\ [][Next]_vars

\* The Go scheduler runs every goroutine that can run, and every call of the
\* store and of the broker returns: no handler stops between two of its steps.
Fairness ==
    \A d \in Deliveries :
        /\ WF_vars(HandlerUnmarshal(d))
        /\ WF_vars(HandlerNackDecode(d))
        /\ WF_vars(HandlerTrack(d))
        /\ WF_vars(HandlerInsert(d))
        /\ WF_vars(HandlerNackTrack(d))
        /\ WF_vars(HandlerSpawnPublish(d))
        /\ WF_vars(Publish(d))
        /\ WF_vars(HandlerAck(d))

SpecFair == Init /\ [][Next]_vars /\ Fairness

\* the consumer while the process is told to terminate
NextShutdown ==
    \/ Next
    \/ Signal
    \/ ShutdownReceive
    \/ ShutdownCloseRabbit
    \/ ShutdownDisconnect
    \/ ShutdownReturn

\* the deliveries carry a valid body or one that does not decode
InitShutdown == Init /\ \A d \in Deliveries : Body(d) \in {BodyValid, BodyTruncated}

SpecShutdown == InitShutdown /\ [][NextShutdown]_vars

\* the process from NewApp on: Run, the signal goroutine, the HTTP server
\* goroutine, Shutdown and the consumer
NextLifecycle ==
    \/ NextShutdown
    \/ RunConnect
    \/ RunNewRabbitConnection
    \/ RunChannel
    \/ RunQueueDeclare
    \/ RunConsume
    \/ RunServe
    \/ RunSendFailure
    \/ ServerFail
    \/ ShutdownDeferDb
    \/ ShutdownDeferConn

\* the deliveries as in InitShutdown, the process as NewApp leaves it
InitLifecycle ==
    /\ subscription = [i \in 1..NumDeliveries |-> i]
    /\ body \in [Deliveries -> 1..Len(Bodies)]
    /\ \A d \in Deliveries : Body(d) \in {BodyValid, BodyTruncated}
    /\ pc = [d \in Deliveries |-> "waiting"]
    /\ trackingData = [d \in Deliveries |-> NoRequest]
    /\ trackErr = [d \in Deliveries |-> "none"]
    /\ pubpc = [d \in Deliveries |-> "none"]
    /\ pubErr = [d \in Deliveries |-> <<>>]
    /\ acks = [d \in Deliveries |-> <<>>]
    /\ taken = [d \in Deliveries |-> 0]
    /\ outbound = <<>>
    /\ store = <<>>
    /\ origin = <<>>
    /\ now = 0
    /\ lastTrack = NoTrack
    /\ q = NoQuery
    /\ sweep = NoSweep
    /\ resp = NoResponse
    /\ app = AppCreated
    /\ trackCall = [c \in Callers |-> NoCall]

SpecLifecycle == InitLifecycle /\ [][NextLifecycle]_vars

\* no delivery in flight
InitIdle ==
    /\ subscription = <<>>
    /\ body = [d \in Deliveries |-> 1]
    /\ pc = [d \in Deliveries |-> "done"]
    /\ trackingData = [d \in Deliveries |-> NoRequest]
    /\ trackErr = [d \in Deliveries |-> "none"]
    /\ pubpc = [d \in Deliveries |-> "none"]
    /\ pubErr = [d \in Deliveries |-> <<>>]
    /\ acks = [d \in Deliveries |-> <<>>]
    /\ taken = [d \in Deliveries |-> 0]
    /\ outbound = <<>>
    /\ store = <<>>
    /\ origin = <<>>
    /\ now = 0
    /\ lastTrack = NoTrack
    /\ q = NoQuery
    /\ sweep = NoSweep
    /\ resp = NoResponse
    /\ app = AppRunning
    /\ trackCall = [c \in Callers |-> NoCall]

\* the service's write path, called directly
NextTrack == TrackVehicleCall

SpecTrack == InitIdle /\ [][NextTrack]_vars

\* the read path over a store filled through the repository
NextQuery == RepoCreate \/ FindTrackingData

SpecQuery == InitIdle /\ [][NextQuery]_vars

\* the paging loop over a store filled through the repository
NextPages == RepoCreate \/ CreateLoopPages \/ FindPage

SpecPages == InitIdle /\ [][NextPages]_vars

\* the read path after any create, the create loop included
NextSort == RepoCreate \/ CreateLoopSorted \/ FindSorted

SpecSort == InitIdle /\ [][NextSort]_vars

\* A query while deliveries are handled: one that selects every record, one
\* that selects the records of a vehicle, and one whose filter is rejected.
ConcurrentBags ==
    {BagOf([vehicle_id |-> v, status |-> st]) :
        v \in {Absent, VehicleB}, st \in {Absent, Bogus}}

FindTrackingDataConcurrent ==
    /\ ServiceFind(ConcurrentBags)
    /\ UNCHANGED <<ingestVars, store, origin, now, lastTrack, sweep, resp, app, trackCall>>

\* TrackVehicle called by another client of the service while deliveries are
\* handled, with a valid and with an invalid submission
ConcurrentRequests == {RequestB, [RequestA EXCEPT !.status = Bogus]}

TrackVehicleConcurrent ==
    /\ ~trackCall[0].open
    /\ Len(store) < MaxStore
    /\ \E req \in ConcurrentRequests, t \in ClockReadings :
          IF ReachesInsertOne(req, t)
          THEN /\ trackCall' = [trackCall EXCEPT ![0] = [open |-> TRUE, req |-> req, t |-> t]]
               /\ now' = t
          ELSE UNCHANGED <<trackCall, now>>
    /\ UNCHANGED <<ingestVars, store, origin, lastTrack, q, sweep, resp, app>>

\* InsertOne of the other client's call returns
TrackVehicleConcurrentInsert ==
    /\ trackCall[0].open
    /\ \E insertOK \in BOOLEAN :
          LET r == TrackVehicle(store, trackCall[0].req, trackCall[0].t, insertOK)
              inserted == Len(r.store) > Len(store)
          IN  /\ store' = r.store
              /\ origin' = IF inserted THEN Append(origin, 0) ELSE origin
    /\ trackCall' = [trackCall EXCEPT ![0] = NoCall]
    /\ UNCHANGED <<ingestVars, now, lastTrack, q, sweep, resp, app>>

\* deliveries, direct calls of TrackVehicle and a query, in any interleaving
NextAll ==
    \/ Next
    \/ TrackVehicleConcurrent
    \/ TrackVehicleConcurrentInsert
    \/ FindTrackingDataConcurrent

\* the deliveries carry a valid body or one that does not decode
InitAll == Init /\ \A d \in Deliveries : Body(d) \in {BodyValid, BodyTruncated}

SpecAll == InitAll /\ [][NextAll]_vars

\* the query endpoint over a store filled through the repository
NextHTTP == RepoCreate \/ HandlerFindTrackingData

SpecHTTP == InitIdle /\ [][NextHTTP]_vars

(***************************************************************************)
(* Properties of the ingestion consumer (specification Spec).              *)
(***************************************************************************)
Decodes(d) == Unmarshal(Body(d)).ok

\* the handler of d and the publish goroutine it started have both ended
Finished(d) == pc[d] = "done" /\ pubpc[d] \in {"none", "done"}

RecordsOf(d) == {i \in 1..Len(store) : origin[i] = d}

PublishedOf(d) == {i \in 1..Len(outbound) : outbound[i].from = d}

OneAck(d) == Len(acks[d]) = 1 /\ acks[d][1].op = "ack"

OneNackNoRequeue(d) ==
    Len(acks[d]) = 1 /\ acks[d][1].op = "nack" /\ acks[d][1].requeue = FALSE

OnlyNacksNoRequeue(d) ==
    \A i \in 1..Len(acks[d]) : acks[d][i].op = "nack" /\ acks[d][i].requeue = FALSE

\* C1 as stated: when a delivery that decoded and was tracked without error is
\* finished, one record is persisted for it, one message with the inbound body is
\* on the outbound queue, and it got one positive ack.
C1_AsStated ==
    \A d \in Deliveries :
        (Decodes(d) /\ trackErr[d] = "nil" /\ Finished(d)) =>
            /\ Cardinality(RecordsOf(d)) = 1
            /\ Cardinality(PublishedOf(d)) = 1
            /\ \A i \in PublishedOf(d) : outbound[i].msg.Body = Body(d)
            /\ OneAck(d)

\* C1 amended: when a delivery that decoded and was tracked without error is
\* finished, one record is persisted for it, one publish call was made, the
\* outbound queue holds one message for it if that call succeeded and none if it
\* failed, a published message carries the inbound body unchanged with content
\* type application/json, and the handler made one Ack call and no Nack call.
C1_ValidDelivery ==
    \A d \in Deliveries :
        (Decodes(d) /\ trackErr[d] = "nil" /\ Finished(d)) =>
            /\ Cardinality(RecordsOf(d)) = 1
            /\ Len(pubErr[d]) = 1
            /\ Cardinality(PublishedOf(d)) = (IF pubErr[d][1] THEN 0 ELSE 1)
            /\ \A i \in PublishedOf(d) :
                  /\ outbound[i].msg.Body = Body(d)
                  /\ outbound[i].msg.ContentType = ApplicationJSON
            /\ OneAck(d)

\* a delivery whose body is not what json.Marshal would write was tracked,
\* republished and acked
C1_Witness ==
    \E d \in Deliveries :
        /\ Decodes(d) /\ trackErr[d] = "nil" /\ Finished(d)
        /\ Body(d) # Marshal(trackingData[d])
        /\ Cardinality(PublishedOf(d)) = 1
        /\ OneAck(d)

\* C2: a delivery whose body fails to decode never reaches TrackVehicle, persists
\* no record, publishes nothing, gets no positive ack, and its handler ends with
\* one Nack with requeue = false.
C2_DecodeFailure ==
    \A d \in Deliveries :
        ~Decodes(d) =>
            /\ trackErr[d] = "none"
            /\ pc[d] \notin {"track", "insert", "nackTrack", "spawn", "ack"}
            /\ RecordsOf(d) = {}
            /\ pubpc[d] = "none" /\ pubErr[d] = <<>> /\ PublishedOf(d) = {}
            /\ OnlyNacksNoRequeue(d)
            /\ taken[d] <= 1
            /\ pc[d] = "done" => OneNackNoRequeue(d)

C2_Witness ==
    \E d \in Deliveries : ~Decodes(d) /\ pc[d] = "done" /\ OneNackNoRequeue(d)

\* C3: a delivery that decodes and for which TrackVehicle returns an error gets
\* one Nack with requeue = false, nothing is published for it, it gets no positive
\* ack, and the dispatch loop never receives it a second time.
C3_TrackFailure ==
    \A d \in Deliveries :
        trackErr[d] \notin {"none", "nil"} =>
            /\ Decodes(d)
            /\ pc[d] \in {"nackTrack", "done"}
            /\ pubpc[d] = "none" /\ pubErr[d] = <<>> /\ PublishedOf(d) = {}
            /\ OnlyNacksNoRequeue(d)
            /\ taken[d] = 1
            /\ d \notin {subscription[i] : i \in 1..Len(subscription)}
            /\ pc[d] = "done" => OneNackNoRequeue(d)

\* one delivery failed validation, another failed at the store, both were nacked
C3_Witness ==
    \E d1, d2 \in Deliveries :
        /\ trackErr[d1] = "validation" /\ pc[d1] = "done" /\ OneNackNoRequeue(d1)
        /\ trackErr[d2] = "storage" /\ pc[d2] = "done" /\ OneNackNoRequeue(d2)

\* C4: once TrackVehicle has returned nil the handler never nacks, the Ack call
\* is possible as soon as the handler has reached it, whatever the publish
\* goroutine has or has not done, and the handler ends with one Ack.
C4_AckIndependentOfPublish ==
    \A d \in Deliveries :
        trackErr[d] = "nil" =>
            /\ \A i \in 1..Len(acks[d]) : acks[d][i].op = "ack"
            /\ pc[d] = "ack" => ENABLED HandlerAck(d)
            /\ pc[d] = "done" => OneAck(d)

\* one delivery was acked while its publish call had not completed, another was
\* acked although its publish call failed
C4_Witness ==
    \E d1, d2 \in Deliveries :
        /\ trackErr[d1] = "nil" /\ OneAck(d1) /\ pubpc[d1] = "publish"
        /\ trackErr[d2] = "nil" /\ OneAck(d2) /\ pubErr[d2] = <<TRUE>>


(***************************************************************************)
(* Properties of TrackVehicle (specification SpecTrack).                   *)
(***************************************************************************)
\* the last record of the store
LastRecord == store[Len(store)]

\* C5: when a submission passes validation and transformation and the insert
\* succeeds, TrackVehicle appends exactly one record to the store, the record
\* and the caller's trackingData carry the same non-zero id, no other record has
\* that id, and the record's vehicle id, location, mileage, status and fuel
\* condition are those of the transformed submission.
C5_TrackPersistsOne ==
    lastTrack.called =>
        LET ok == Validate(lastTrack.req) /\ ToTrackingData(lastTrack.req).ok
            want == ToTrackingData(lastTrack.req).data
        IN  /\ lastTrack.err = "nil" => ok
            /\ ok => lastTrack.err \in {"nil", "storage"}
            /\ (ok /\ lastTrack.err = "nil") =>
                  /\ Len(store) = Len(lastTrack.before) + 1
                  /\ SubSeq(store, 1, Len(lastTrack.before)) = lastTrack.before
                  /\ LastRecord.id # NilObjectID
                  /\ lastTrack.data.id = LastRecord.id
                  /\ \A i \in 1..(Len(store) - 1) : store[i].id # LastRecord.id
                  /\ LastRecord.vehicle_id = want.vehicle_id
                  /\ LastRecord.location = want.location
                  /\ LastRecord.mileage = want.mileage
                  /\ LastRecord.status = want.status
                  /\ LastRecord.fuel_condition = want.fuel_condition

\* a second record was persisted, for the other vehicle
C5_Witness ==
    /\ lastTrack.called /\ lastTrack.err = "nil"
    /\ Len(store) = 2
    /\ store[1].vehicle_id # store[2].vehicle_id
    /\ store[2].id # NilObjectID

\* a submission with an invalid vehicle id, a negative mileage, or a status or
\* fuel condition outside the enumerations
InvalidSubmission(req) ==
    \/ Len(req.vehicle_id) # 24
    \/ \E i \in 1..Len(req.vehicle_id) : ~IsHex(req.vehicle_id[i])
    \/ req.mileage.m < 0
    \/ req.status \notin VehicleStatuses
    \/ req.fuel_condition \notin FuelConditions

\* C6: for a submission that fails validation TrackVehicle returns an error, the
\* repository's create operation is not called, and the store is unchanged.
C6_InvalidNotPersisted ==
    (lastTrack.called /\ InvalidSubmission(lastTrack.req)) =>
        /\ lastTrack.err \notin {"nil", "none"}
        /\ lastTrack.creates = 0
        /\ store = lastTrack.before

\* an invalid submission was rejected while the store held a record
C6_Witness ==
    /\ lastTrack.called /\ InvalidSubmission(lastTrack.req)
    /\ lastTrack.err = "validation"
    /\ Len(store) >= 1

(***************************************************************************)
(* Properties of the query path (specification SpecQuery).                 *)
(***************************************************************************)
Has(k) == k \in DOMAIN q.params

First(k) == q.params[k][1]

\* Build ran on the filter of the last query
BuildRan == q.called /\ q.err \notin {"syntax", "marshal", "unmarshal"}

\* C7 as stated: every filter that reaches collection.Find has page >= 1 and
\* 1 <= pageSize <= 100, so the skip is not negative and the limit is in 1..100.
C7_AsStated ==
    (q.called /\ q.findIssued) =>
        /\ q.filter.Page >= 1
        /\ q.filter.PageSize >= 1 /\ q.filter.PageSize <= 100
        /\ Skip(q.filter) >= 0
        /\ Limit(q.filter) \in 1..100

\* C8: resolution applies the defaults and the clamp: an absent page gives 1, an
\* absent limit 10, a limit above 100 gives 100, a page >= 1 and a limit in 1..100
\* are kept (page=2, limit=5 gives 2 and 5; limit=500 gives 100), an absent sort
\* field gives created_at and an absent sort order asc.
C8_DefaultsAndClamp ==
    BuildRan =>
        /\ ~Has("page") => q.filter.Page = 1
        /\ ~Has("limit") => q.filter.PageSize = 10
        /\ (Has("limit") /\ Atoi(First("limit")).v > 100) => q.filter.PageSize = 100
        /\ (Has("page") /\ Atoi(First("page")).v >= 1) =>
              q.filter.Page = Atoi(First("page")).v
        /\ (Has("limit") /\ Atoi(First("limit")).v \in 1..100) =>
              q.filter.PageSize = Atoi(First("limit")).v
        /\ (Has("page") /\ First("page") = <<"2">>) => q.filter.Page = 2
        /\ (Has("limit") /\ First("limit") = <<"5">>) => q.filter.PageSize = 5
        /\ (Has("limit") /\ First("limit") = <<"5", "0", "0">>) => q.filter.PageSize = 100
        /\ ~Has("sort_by") => q.filter.SortField = FieldCreatedAt
        /\ ~Has("sort_order") => q.filter.SortOrder = Asc

\* limit=500 alone was resolved to page 1, page size 100, created_at, asc
C8_Witness ==
    /\ q.called /\ q.findIssued
    /\ DOMAIN q.params = {"limit"} /\ First("limit") = <<"5", "0", "0">>
    /\ q.filter.Page = 1 /\ q.filter.PageSize = 100
    /\ q.filter.SortField = FieldCreatedAt /\ q.filter.SortOrder = Asc

\* the filter carries every default and only validated values
Resolved(f) ==
    /\ f.Page # 0
    /\ f.PageSize # 0 /\ f.PageSize <= MaxPageSize
    /\ f.SortField # <<>> /\ f.SortOrder # <<>>
    /\ f.VehicleID # <<>> =>
          ObjectIDFromHex(f.VehicleID).ok /\ f.vehicleID = ObjectIDFromHex(f.VehicleID).id
    /\ f.Status # <<>> => f.Status \in VehicleStatuses
    /\ f.FuelCondition # <<>> => f.FuelCondition \in FuelConditions

\* a page or limit that is no integer, or a mileage that is no number
MalformedNumber ==
    \/ Has("page") /\ ~Atoi(First("page")).ok
    \/ Has("limit") /\ ~Atoi(First("limit")).ok
    \/ Has("mileage") /\ ~ParseFloat(First("mileage")).ok

\* C9 as stated: find is issued only with a resolved filter, and a bag with a
\* malformed number, a vehicle_id that is no valid id, or a status or
\* fuel_condition outside the enumerations gets an error and no find.
C9_AsStated ==
    q.called =>
        /\ q.findIssued => Resolved(q.filter)
        /\ (\/ MalformedNumber
            \/ Has("vehicle_id") /\ ~ObjectIDFromHex(First("vehicle_id")).ok
            \/ Has("status") /\ First("status") \notin VehicleStatuses
            \/ Has("fuel_condition") /\ First("fuel_condition") \notin FuelConditions)
           => (q.err # "nil" /\ ~q.findIssued /\ q.result = <<>>)

\* C9 amended: find is issued only with a resolved filter, and a bag with a
\* malformed number, a non-empty vehicle_id that is no valid id, or a non-empty
\* status or fuel_condition outside the enumerations gets an error and no find;
\* an empty vehicle_id, status or fuel_condition counts as absent.
C9_UnresolvedNeverReachesStore ==
    q.called =>
        /\ q.findIssued => Resolved(q.filter)
        /\ (\/ MalformedNumber
            \/ /\ Has("vehicle_id") /\ First("vehicle_id") # <<>>
               /\ ~ObjectIDFromHex(First("vehicle_id")).ok
            \/ /\ Has("status") /\ First("status") # <<>>
               /\ First("status") \notin VehicleStatuses
            \/ /\ Has("fuel_condition") /\ First("fuel_condition") # <<>>
               /\ First("fuel_condition") \notin FuelConditions)
           => (q.err # "nil" /\ ~q.findIssued /\ q.result = <<>>)

\* status=bogus was rejected over a store that holds records
C9_Witness ==
    /\ q.called /\ Has("status") /\ First("status") = Bogus
    /\ q.err = "invalid status" /\ ~q.findIssued
    /\ Len(store) >= 1

\* s starts with prefix, letters compared without case
HasPrefixFold(s, prefix) ==
    /\ Len(s) >= Len(prefix)
    /\ \A i \in 1..Len(prefix) : ToLower(s[i]) = ToLower(prefix[i])

\* the selection C10 describes, on the parameters of the query
Selected(doc) ==
    /\ (Has("vehicle_id") /\ First("vehicle_id") # <<>>) =>
          doc.vehicle_id = ObjectIDFromHex(First("vehicle_id")).id
    /\ (Has("location") /\ First("location") # <<>>) =>
          HasPrefixFold(doc.location, First("location"))
    /\ (Has("mileage") /\ ~FloatIsZero(ParseFloat(First("mileage")).v)) =>
          FloatGe(doc.mileage, ParseFloat(First("mileage")).v)
    /\ (Has("status") /\ First("status") # <<>>) => doc.status = First("status")
    /\ (Has("fuel_condition") /\ First("fuel_condition") # <<>>) =>
          doc.fuel_condition = First("fuel_condition")

\* C10 as stated: a successful find returns only records that satisfy the
\* conjunction of the present filter fields, and with the first page at least as
\* long as the store it returns all of them.
C10_AsStated ==
    (q.called /\ q.err = "nil") =>
        /\ \A i \in 1..Len(q.result) : Selected(q.result[i])
        /\ (Skip(q.filter) = 0 /\ Limit(q.filter) >= Len(store)) =>
              {q.result[i] : i \in 1..Len(q.result)}
                  = {store[i] : i \in {j \in 1..Len(store) : Selected(store[j])}}

(***************************************************************************)
(* Properties of the paging loop (specification SpecPages).                *)
(***************************************************************************)
\* the filter of the loop as Build resolves it (the page aside)
SweepFilter == TrackingFilterBuild([sweep.filter EXCEPT !.Page = 1]).filter

\* the ids of the documents of the store the loop's filter selects
SweepMatching == {store[i].id : i \in Matching(store, SweepFilter)}

\* the loop has fetched the pages 1..ceil(N/k) without an error
SweepDone ==
    /\ sweep.started /\ sweep.err = "none"
    /\ Len(sweep.pages) = PagesNeeded(Cardinality(SweepMatching), SweepFilter.PageSize)

PageIds(p) == {sweep.pages[p][i].id : i \in 1..Len(sweep.pages[p])}

\* every full page holds exactly k records, none of them twice
PagesFull ==
    \A p \in 1..Len(sweep.pages) :
        p * SweepFilter.PageSize <= Cardinality(SweepMatching)
            => /\ Len(sweep.pages[p]) = SweepFilter.PageSize
               /\ Cardinality(PageIds(p)) = SweepFilter.PageSize

PagesDisjoint ==
    \A p1, p2 \in 1..Len(sweep.pages) : p1 # p2 => PageIds(p1) \cap PageIds(p2) = {}

PagesCover == UNION {PageIds(p) : p \in 1..Len(sweep.pages)} = SweepMatching

\* no two selected documents have the same value in the sort field
SortKeysDistinct ==
    \A i, j \in Matching(store, SweepFilter) :
        i # j => \/ FieldLess(SweepFilter.SortField, store[i], store[j])
                 \/ FieldLess(SweepFilter.SortField, store[j], store[i])

\* C11 as stated: over a fixed store, sort and page size k, the pages
\* 1..ceil(N/k) are pairwise disjoint, their union is all N matching records,
\* and every page p with p*k <= N holds exactly k records.
C11_AsStated ==
    SweepDone => PagesFull /\ PagesDisjoint /\ PagesCover

\* with pairwise distinct values in the sort field the statement of C11 holds:
\* every page p with p*k <= N holds exactly k records in every case, and the
\* pages are pairwise disjoint and cover the N matching records
C11_DistinctKeysPartition ==
    SweepDone => /\ PagesFull
                 /\ SortKeysDistinct => PagesDisjoint /\ PagesCover

\* page=1..2 with limit=2 over four records with distinct sort values: two
\* records on each page, no overlap, full coverage
C11_DistinctKeysReached ==
    /\ SweepDone /\ SortKeysDistinct
    /\ SweepFilter.PageSize = 2
    /\ Cardinality(SweepMatching) = 4 /\ Len(sweep.pages) = 2
    /\ PagesFull /\ PagesDisjoint /\ PagesCover

\* page=1..2 with limit=2 over four records created within one reading of the
\* clock: both pages hold two records, one record is on both pages and
\* another on none
C11_LimitTwoOverlap ==
    /\ SweepDone
    /\ sweep.filter.PageSize = 2 /\ sweep.filter.SortField = <<>>
    /\ Len(store) = 4 /\ Cardinality(SweepMatching) = 4
    /\ \A i \in 1..Len(store) : store[i].created_at = store[1].created_at
    /\ Len(sweep.pages) = 2 /\ PagesFull
    /\ PageIds(1) \cap PageIds(2) # {}
    /\ PageIds(1) \cup PageIds(2) # SweepMatching

(***************************************************************************)
(* Properties of the order of a query's result (specification SpecSort).   *)
(***************************************************************************)
\* consecutive records of the result do not decrease on the field
NonDecreasing(res, field) ==
    \A i \in 1..(Len(res) - 1) : ~FieldLess(field, res[i + 1], res[i])

\* consecutive records of the result do not increase on the field
NonIncreasing(res, field) ==
    \A i \in 1..(Len(res) - 1) : ~FieldLess(field, res[i], res[i + 1])

\* the limit of the request: the limit parameter, the default when it is
\* absent or zero; the clamp is not applied
LimitAsked ==
    IF Has("limit") /\ Atoi(First("limit")).v # 0
    THEN Atoi(First("limit")).v
    ELSE DefaultPageSize

\* the result is in the order of the filter's sort field and sort order
ResultOrdered ==
    /\ q.filter.SortOrder = Asc => NonDecreasing(q.result, q.filter.SortField)
    /\ q.filter.SortOrder = Desc => NonIncreasing(q.result, q.filter.SortField)

\* the result holds every matching record once
ResultComplete ==
    /\ Len(q.result) = Cardinality(Matching(store, q.filter))
    /\ {q.result[i].id : i \in 1..Len(q.result)}
          = {store[i].id : i \in Matching(store, q.filter)}

\* the result is the first MaxPageSize matching records in the sort order: no
\* matching record that was left out goes before a returned one
ResultFirstHundred ==
    LET returned == {q.result[i].id : i \in 1..Len(q.result)}
        left == {i \in Matching(store, q.filter) : store[i].id \notin returned}
        first(r, other) == IF SortDirection(q.filter) = 1
                           THEN FieldLess(q.filter.SortField, r, other)
                           ELSE FieldLess(q.filter.SortField, other, r)
    IN  /\ Len(q.result) = MaxPageSize
        /\ Cardinality(returned) = MaxPageSize
        /\ returned \subseteq {store[i].id : i \in Matching(store, q.filter)}
        /\ \A i \in 1..Len(q.result), j \in left : ~first(store[j], q.result[i])

\* C12 as stated: the result is ordered on the filter's sort field,
\* non-decreasing for asc or no sort order and non-increasing for desc, and page
\* 1 with a limit not smaller than the number of matching records returns every
\* matching record.
C12_AsStated ==
    (q.called /\ q.err = "nil") =>
        /\ ResultOrdered
        /\ (q.filter.Page = 1 /\ LimitAsked >= Cardinality(Matching(store, q.filter)))
              => ResultComplete

\* C12 amended: the result is ordered on the filter's sort field, non-decreasing
\* for asc or no sort order and non-increasing for desc; page 1 with a limit not
\* smaller than the number of matching records returns every matching record
\* when there are at most 100 of them, and the first 100 in the sort order when
\* there are more, the limit being clamped to 100.
C12_ResultSorted ==
    (q.called /\ q.err = "nil") =>
        /\ ResultOrdered
        /\ (q.filter.Page = 1 /\ LimitAsked >= Cardinality(Matching(store, q.filter)))
              => IF Cardinality(Matching(store, q.filter)) <= MaxPageSize
                 THEN ResultComplete
                 ELSE ResultFirstHundred

\* limit=101 with sort_order=desc over 101 records returned 100 of them, the
\* latest first, and left out the earliest
C12_Witness ==
    /\ q.called /\ q.err = "nil"
    /\ Has("limit") /\ First("limit") = <<"1", "0", "1">>
    /\ Has("sort_order") /\ First("sort_order") = Desc
    /\ ~Has("page")
    /\ Len(store) = MaxPageSize + 1
    /\ Cardinality(Matching(store, q.filter)) = MaxPageSize + 1
    /\ Len(q.result) = MaxPageSize
    /\ q.result[1].id = store[MaxPageSize + 1].id
    /\ q.result[MaxPageSize].id = store[2].id

\* sort_by=location with sort_order=desc returned two records, "Lo" before "La",
\* that were inserted the other way round
C12_LocationDescending ==
    /\ q.called /\ q.err = "nil"
    /\ Has("sort_by") /\ First("sort_by") = FieldLocation
    /\ Has("sort_order") /\ First("sort_order") = Desc
    /\ Len(store) = 2 /\ store[1].location = LocLa /\ store[2].location = LocLo
    /\ Len(q.result) = 2
    /\ q.result[1].location = LocLo /\ q.result[2].location = LocLa

(***************************************************************************)
(* Properties of the parameter bag (specification SpecQuery).              *)
(***************************************************************************)
RecognizedKeys == IntKeys \cup FloatKeys \cup FilterStringKeys

\* what a parameter bag resolves to: the error, or the built filter
Resolve(query) ==
    LET d == QueryData(query)
        u == FilterUnmarshal(MarshalMap(d.data))
        b == TrackingFilterBuild(u.filter)
    IN  IF ~d.ok THEN [err |-> "syntax", filter |-> ZeroFilter]
        ELSE IF ~MarshalMapOK(d.data) THEN [err |-> "marshal", filter |-> ZeroFilter]
        ELSE IF ~u.ok THEN [err |-> "unmarshal", filter |-> ZeroFilter]
        ELSE [err |-> b.err, filter |-> b.filter]

\* what the query of the state resolved to (a failure of the find comes after)
Resolution ==
    [err |-> IF q.err = "storage" THEN "nil" ELSE q.err, filter |-> q.filter]

\* the bag without its unrecognized keys
WithoutExtraKeys(query) == [k \in DOMAIN query \cap RecognizedKeys |-> query[k]]

\* the bag with only the first value of every key
FirstValues(query) == [k \in DOMAIN query |-> <<query[k][1]>>]

\* C13 as stated: the query on a bag with extra keys that are none of the nine
\* recognized keys resolves to the same filter, or the same error, as the query
\* on the bag without them, and only the first value of a key is used.
C13_AsStated ==
    q.called =>
        /\ Resolution = Resolve(q.params)
        /\ Resolution = Resolve(WithoutExtraKeys(q.params))
        /\ Resolution = Resolve(FirstValues(q.params))

(***************************************************************************)
(* Properties of the query endpoint (specification SpecHTTP).              *)
(***************************************************************************)
\* the filter of the request failed to build or validate
FilterFailed ==
    q.called /\ q.err \in {"syntax", "marshal", "unmarshal", "invalid id", "invalid status",
                           "invalid fuel condition"}

\* C14: a request gets exactly one of four outcomes: a method other than GET
\* gets 405 without a call of the service; a GET whose filter fails to build or
\* validate gets 400; a GET whose query yields no record gets 404; a GET whose
\* query yields records gets the 200 envelope with those records.
C14_FourOutcomes ==
    resp.called =>
        /\ resp.status \in {StatusMethodNotAllowed, StatusBadRequest, StatusNotFound, StatusOK}
        /\ resp.method # MethodGet <=> resp.status = StatusMethodNotAllowed
        /\ resp.method # MethodGet => ~q.called
        /\ resp.method = MethodGet =>
              /\ q.called
              /\ FilterFailed => resp.status = StatusBadRequest
              /\ (q.err = "nil" /\ Len(q.result) = 0) => resp.status = StatusNotFound
              /\ (q.err = "nil" /\ Len(q.result) > 0) =>
                    resp.status = StatusOK /\ resp.data = q.result
              /\ resp.status = StatusBadRequest <=> q.err # "nil"
              /\ resp.status # StatusOK => resp.data = <<>>

\* a GET over a store with a record that the filter does not select got 404
C14_Witness ==
    /\ resp.called /\ resp.method = MethodGet
    /\ Len(store) >= 1
    /\ q.called /\ q.err = "nil" /\ q.findIssued /\ q.result = <<>>
    /\ resp.status = StatusNotFound

(***************************************************************************)
(* Properties of the store under deliveries, direct calls and queries      *)
(* taken together (specification SpecAll).                                 *)
(***************************************************************************)
\* every record of the store is still there, at its place and unchanged
RecordsKept ==
    /\ Len(store') >= Len(store)
    /\ \A i \in 1..Len(store) : store'[i] = store[i]

\* C15: the store is append-only: a persisted record stays in the store with
\* the same identity and field values in every later state, and a query,
\* successful, empty or failing, leaves the persisted records unchanged.
C15_AppendOnly ==
    [][RecordsKept /\ (q' # q => store' = store)]_vars

\* a query that selected every record was answered with one record, and records
\* of a delivery and of a direct call are in the store, one of them added later
C15_Witness ==
    /\ q.called /\ DOMAIN q.params = {} /\ q.err = "nil" /\ Len(q.result) = 1
    /\ Len(store) >= 2 /\ store[1] = q.result[1]
    /\ \E i, j \in 1..Len(origin) : origin[i] = 0 /\ origin[j] # 0

(***************************************************************************)
(* Properties of concurrent deliveries (specification Spec).               *)
(***************************************************************************)
\* the handler of d persists its record as the next record of the store
PersistsNext(d) ==
    /\ HandlerInsert(d)
    /\ Len(store') = Len(store) + 1
    /\ origin' = Append(origin, d)

\* d1 and d2 are valid deliveries for the same vehicle, both about to call TrackVehicle
BothAboutToTrack(d1, d2) ==
    /\ pc[d1] = "track" /\ pc[d2] = "track"
    /\ Validate(trackingData[d1]) /\ Validate(trackingData[d2])
    /\ trackingData[d1].vehicle_id = trackingData[d2].vehicle_id

\* the handlers of d1 and d2 both wait for the store to insert their records,
\* which are for the same vehicle
BothInserting(d1, d2) ==
    /\ pc[d1] = "insert" /\ pc[d2] = "insert"
    /\ trackCall[d1].req.vehicle_id = trackCall[d2].req.vehicle_id

\* C16: deliveries are not serialized: of two valid deliveries for the same
\* vehicle whose handlers are about to persist, either one can go on first, and
\* when both wait for the store either one can have its record persisted next,
\* so both orders of their records are reachable; and the dispatch loop can
\* take the next delivery while an earlier one is neither acked nor nacked.
C16_NotSerialized ==
    \A d1, d2 \in Deliveries :
        d1 < d2 =>
            /\ BothAboutToTrack(d1, d2) => ENABLED HandlerTrack(d1) /\ ENABLED HandlerTrack(d2)
            /\ BothInserting(d1, d2) => ENABLED PersistsNext(d1) /\ ENABLED PersistsNext(d2)
            /\ (/\ taken[d1] = 1 /\ acks[d1] = <<>>
                /\ subscription # <<>> /\ Head(subscription) = d2) => ENABLED Receive

\* two valid deliveries for one vehicle: the record of the one received second
\* was persisted first, and the one received first is not yet acked
C16_Witness ==
    /\ taken[1] = 1 /\ taken[2] = 1
    /\ Validate(trackingData[1]) /\ Validate(trackingData[2])
    /\ trackingData[1].vehicle_id = trackingData[2].vehicle_id
    /\ origin = <<2, 1>>
    /\ store[1].vehicle_id = store[2].vehicle_id
    /\ acks[1] = <<>>

(***************************************************************************)
(* Properties of failures among deliveries (specification Spec).           *)
(***************************************************************************)
\* the handler's calls on the delivery, without the broker's answers
AckOps(d) == [i \in 1..Len(acks[d]) |-> acks[d][i].op]

\* some step of the delivery failed: decode, track, publish, or the ack or nack call
FailedSomewhere(d) ==
    \/ pc[d] \in {"nackDecode", "nackTrack"}
    \/ trackErr[d] \notin {"none", "nil"}
    \/ \E i \in 1..Len(pubErr[d]) : pubErr[d][i]
    \/ \E i \in 1..Len(acks[d]) : acks[d][i].op = "nack" \/ ~acks[d][i].ok

\* C17: failures are isolated per delivery: whether a finished delivery was
\* acked or nacked and whether its record is persisted follows from its own
\* body and its own track result, whatever happened to the other deliveries,
\* and the dispatch loop takes the next delivery after any failure.
C17_FailuresIsolated ==
    /\ \A d \in Deliveries :
          pc[d] = "done" =>
              /\ AckOps(d) = IF Decodes(d) /\ trackErr[d] = "nil" THEN <<"ack">> ELSE <<"nack">>
              /\ Cardinality(RecordsOf(d)) = IF Decodes(d) /\ trackErr[d] = "nil" THEN 1 ELSE 0
              /\ ~Decodes(d) => trackErr[d] = "none"
    /\ \A d \in Deliveries :
          taken[d] = 0 => /\ \E i \in 1..Len(subscription) : subscription[i] = d
                          /\ ENABLED Receive

\* the first delivery was nacked and its nack failed at the broker; the second
\* was taken afterwards, persisted and acked
C17_Witness ==
    /\ pc[1] = "done" /\ AckOps(1) = <<"nack">> /\ ~acks[1][1].ok
    /\ pc[2] = "done" /\ AckOps(2) = <<"ack">> /\ acks[2][1].ok
    /\ RecordsOf(1) = {} /\ Cardinality(RecordsOf(2)) = 1
    /\ FailedSomewhere(1)

(***************************************************************************)
(* Properties of the order of a delivery's steps (specification Spec).     *)
(***************************************************************************)
\* the handler has issued the positive ack
AckIssued(d) == \E i \in 1..Len(acks[d]) : acks[d][i].op = "ack"

\* the publish call for the delivery has been made
PublishCalled(d) == pubErr[d] # <<>>

\* C18 as stated: for a successfully processed delivery the store write
\* completes before the republish, and the republish happens before the ack.
C18_AsStated ==
    \A d \in Deliveries :
        /\ PublishCalled(d) => Cardinality(RecordsOf(d)) = 1
        /\ AckIssued(d) => PublishCalled(d)

\* C18 amended: the store write completes before the publish goroutine is
\* started, and the goroutine is started before the ack is issued; the publish
\* call itself happens before or after the ack.
C18_WriteThenSpawnThenAck ==
    \A d \in Deliveries :
        /\ pubpc[d] # "none" => trackErr[d] = "nil" /\ Cardinality(RecordsOf(d)) = 1
        /\ PublishCalled(d) => pubpc[d] = "done"
        /\ AckIssued(d) => pubpc[d] # "none" /\ Cardinality(RecordsOf(d)) = 1

\* the record is persisted and the ack is issued while the publish call is still to come
C18_Witness ==
    \E d \in Deliveries :
        /\ Cardinality(RecordsOf(d)) = 1
        /\ AckIssued(d) /\ pc[d] = "done"
        /\ pubpc[d] = "publish" /\ ~PublishCalled(d)

(***************************************************************************)
(* Termination of the handlers (specification SpecFair).                   *)
(***************************************************************************)
\* C19: under fair scheduling every delivery taken from the subscription
\* reaches its terminal acknowledgment step: its handler attempts one nack
\* without requeue or one positive ack and then ends, and no handler ends
\* without having attempted one of the two.
C19_HandlerTerminates ==
    /\ \A d \in Deliveries :
          [](pc[d] = "done" =>
                /\ Len(acks[d]) = 1
                /\ \/ acks[d][1].op = "ack"
                   \/ acks[d][1].op = "nack" /\ ~acks[d][1].requeue)
    /\ \A d \in Deliveries : (taken[d] > 0) ~> (pc[d] = "done")

\* both handlers have ended, one after a nack for a failed insert, the other
\* after an ack
C19_Witness ==
    \E d, e \in Deliveries :
        /\ pc[d] = "done" /\ pc[e] = "done"
        /\ trackErr[d] = "storage" /\ OneNackNoRequeue(d)
        /\ trackErr[e] = "nil" /\ OneAck(e)

(***************************************************************************)
(* Properties of shutdown (specification SpecShutdown).                    *)
(***************************************************************************)
\* the delivery was taken and its handler has called neither Ack nor Nack
InFlight(d) == taken[d] > 0 /\ acks[d] = <<>>

\* C20: Shutdown does not wait for in-flight handlers: each of its steps can be
\* taken whatever the handlers are doing, so Shutdown returns, with the broker
\* and database connections closed, while a delivery is taken and neither acked
\* nor nacked; an ack or nack attempted after the connection is closed fails.
C20_ShutdownDoesNotWait ==
    /\ (app.phase = "receive" /\ app.shutdown # <<>>) => ENABLED ShutdownReceive
    /\ app.phase = "closeRabbit" => ENABLED ShutdownCloseRabbit
    /\ app.phase = "disconnect" => ENABLED ShutdownDisconnect
    /\ app.phase = "closeChannel" => ENABLED ShutdownReturn
    /\ app.phase = "returned" => ~app.rabbitOpen /\ ~app.dbOpen /\ app.closed
    /\ \A d \in Deliveries :
          (~app.rabbitOpen /\ InFlight(d)) =>
              /\ pc[d] = "ack" => ENABLED HandlerAck(d) /\ ~ENABLED (HandlerAck(d) /\ acks'[d][1].ok)
              /\ pc[d] = "nackDecode" =>
                    ENABLED HandlerNackDecode(d) /\ ~ENABLED (HandlerNackDecode(d) /\ acks'[d][1].ok)

\* Shutdown has returned with both connections closed while a delivery that was
\* taken, and whose record is persisted, is neither acked nor nacked
C20_Witness ==
    /\ app.phase = "returned" /\ ~app.rabbitOpen /\ ~app.dbOpen
    /\ \E d \in Deliveries :
          /\ InFlight(d) /\ pc[d] # "done"
          /\ Cardinality(RecordsOf(d)) = 1

(***************************************************************************)
(* Properties of the acknowledgment calls (specification Spec).            *)
(***************************************************************************)
\* the Nack calls the handler of delivery d made
NacksOf(d) == {i \in 1..Len(acks[d]) : acks[d][i].op = "nack"}

\* the handler of delivery d is past its Ack or Nack call
Acknowledged(d) == pc[d] = "done" /\ Len(acks[d]) = 1

\* C21: in every reachable state each delivery has got at most one call of Ack or
\* Nack from its handler (never an ack and a nack, never two acks, never two
\* nacks), every Nack was called with requeue = false, and the call is made by
\* the one handler the dispatch loop started for the delivery.
C21_AtMostOneAcknowledgment ==
    \A d \in Deliveries :
        /\ Len(acks[d]) <= 1
        /\ \A i \in NacksOf(d) : acks[d][i].requeue = FALSE
        /\ taken[d] <= 1
        /\ acks[d] # <<>> => pc[d] = "done"

\* one delivery was acked and its publish goroutine has ended, another was
\* nacked, and each got that one call only
C21_Witness ==
    \E d1, d2 \in Deliveries :
        /\ Acknowledged(d1) /\ acks[d1][1].op = "ack" /\ pubpc[d1] = "done"
        /\ Acknowledged(d2) /\ NacksOf(d2) = {1} /\ acks[d2][1].requeue = FALSE

(***************************************************************************)
(* Properties of the shutdown channel (specification SpecLifecycle).       *)
(***************************************************************************)
\* no goroutine has sent on the channel after Shutdown closed it
NoSendOnClosed == ~app.panicked

\* once Shutdown has received, its result is the first value sent on the channel
ShutdownReturnsFirstPosted ==
    app.phase \notin {"idle", "deferConn", "receive"} =>
        app.posted # <<>> /\ app.result = app.posted[1]

\* a sender reached its send only after Shutdown had closed the channel
SentAfterClose == app.closed /\ app.phase = "returned" /\ app.panicked

\* C22 as stated: in every interleaving of the signal goroutine, the HTTP server
\* goroutine, Run's startup-failure paths and Shutdown, no goroutine sends on
\* the shutdown channel after Shutdown has closed it, and Shutdown returns the
\* first value that was sent on the channel.
C22_AsStated == NoSendOnClosed /\ ShutdownReturnsFirstPosted

====
